---- MODULE Spec2Model ----
(***************************************************************************)
(* Role synchronization of the RoleManager cog (src/rolemanager).          *)
(*                                                                         *)
(* A discord.Role is modelled by its id (a positive integer); the guild's  *)
(* role list is the set guild_roles, and guild.get_role(id) gives the id   *)
(* back when the role exists and NoRole (Python's None) when it does not.  *)
(* The guild configuration is the record guild_config, with the fields of  *)
(* default_guild.  One member is synchronized; every call of               *)
(* sync_user_roles is a run r, whose locals are the record runs[r] and     *)
(* whose position between two awaits is runs[r].pc.  A configuration        *)
(* command of either cog that awaits more than once is a coroutine         *)
(* commands[c], resumed one await at a time.                               *)
(***************************************************************************)
EXTENDS Integers, Sequences, FiniteSets, TLC

VARIABLES
    guild_roles,    \* ids of the roles that exist in the guild
    guild_config,   \* Config.guild(guild).all()
    db_pool,        \* RoleManager.db_pool: None, an open pool or a closed pool
    saml_users,     \* the member's row of table saml_users, and the table's columns
    member_roles,   \* member.roles[1:]
    runs,           \* the calls of sync_user_roles
    samlauth,       \* the SAMLAuth cog: its pool, its guild settings, its web server
    commands        \* the command coroutines of both cogs that are suspended at an await

vars == <<guild_roles, guild_config, db_pool, saml_users, member_roles, runs, samlauth,
          commands>>

(***************************************************************************)
(* Bounds.                                                                 *)
(***************************************************************************)
NumRoles == 3       \* role ids of the dependency resolver's inputs
MaxEdges == 2       \* (dependent, required) pairs in role_dependencies
NumChainRoles == 4  \* role ids of the dependency chains 1 -> 2 -> ... of the resolver's inputs
NumSyncRoles == 3   \* role ids of the synchronization runs
NumGuilds == 2      \* guilds that share the SAMLAuth cog
NumRuns == 2        \* calls of sync_user_roles for the member
MaxValues == 2      \* values in a list-valued attribute of a record
NumCommands == 2    \* configuration commands suspended at an await at the same time

RoleIds == 1..NumRoles
ChainRoleIds == 1..NumChainRoles
SyncRoleIds == 1..NumSyncRoles
Runs == 1..NumRuns
Guilds == 1..NumGuilds
\* a coroutine, and the AppRunner and TCPSite it creates, are named by an id;
\* one id more than the coroutines, for the server that is left running
CommandIds == 1..(NumCommands + 1)
\* the roles that the configuration commands are given
CommandRoleIds == 1..(NumRoles - 1)

(***************************************************************************)
(* Python values.                                                          *)
(***************************************************************************)
\* None where a role or a role id is expected; falsy like 0
NoRole == 0

\* self.db_pool of either cog: None, the pool that asyncpg.create_pool
\* returned, and that pool after close(), whose acquire() raises
NoPool == "None"
OpenPool == "open"
ClosedPool == "closed"

\* str(role.id) and int(rid): the keys and the entries of role_dependencies
\* are strings, role ids are integers
str(id) == <<"str", id>>
int(s) == s[2]

\* guild.get_role(id)
get_role(guild, id) == IF id \in guild THEN id ELSE NoRole

(***************************************************************************)
(* RoleManager._check_role_dependencies                                    *)
(***************************************************************************)
\* required_roles without the filter: a required id with no role stays, as None
required_roles_unfiltered(guild, role_dependencies, role) ==
    {get_role(guild, int(rid)) : rid \in role_dependencies[str(role)]}

\* required_roles of a role that has an entry: the roles of its required
\* ids, None filtered out
required_roles(guild, role_dependencies, role) ==
    {get_role(guild, int(rid)) : rid \in role_dependencies[str(role)]} \ {NoRole}

\* a first loop that leaves out the target roles the member already holds
ProvisionalAddUnheld(guild, role_dependencies, current_roles, target_roles) ==
    {role \in target_roles \ current_roles :
        IF str(role) \in DOMAIN role_dependencies
        THEN \A req_role \in required_roles(guild, role_dependencies, role) :
                 req_role \in current_roles \/ req_role \in target_roles
        ELSE TRUE}

\* first loop: the target roles whose required roles are all held or targeted
ProvisionalAdd(guild, role_dependencies, current_roles, target_roles) ==
    {role \in target_roles :
        IF str(role) \in DOMAIN role_dependencies
        THEN \A req_role \in required_roles(guild, role_dependencies, role) :
                 req_role \in current_roles \/ req_role \in target_roles
        ELSE TRUE}

\* a removal loop that also removes dependents that are targeted
RemoveTargetedToo(guild, role_dependencies, current_roles, target_roles) ==
    {dep_role \in current_roles :
        \E role \in current_roles \ target_roles :
            \E dep_role_id \in DOMAIN role_dependencies :
                /\ str(role) \in role_dependencies[dep_role_id]
                /\ get_role(guild, int(dep_role_id)) = dep_role}

\* a removal loop that removes the unwanted prerequisite instead of its dependent
RemovePrerequisite(guild, role_dependencies, current_roles, target_roles) ==
    {role \in current_roles \ target_roles :
        \E dep_role_id \in DOMAIN role_dependencies :
            /\ str(role) \in role_dependencies[dep_role_id]
            /\ get_role(guild, int(dep_role_id)) \in current_roles \ target_roles}

\* a removal loop that follows the requirements of a dependent's requirements
RemoveTwoHops(guild, role_dependencies, current_roles, target_roles) ==
    {dep_role \in current_roles \ target_roles :
        \E role \in current_roles \ target_roles :
            \E dep_role_id \in DOMAIN role_dependencies :
                /\ get_role(guild, int(dep_role_id)) = dep_role
                /\ \/ str(role) \in role_dependencies[dep_role_id]
                   \/ \E mid \in role_dependencies[dep_role_id] \cap DOMAIN role_dependencies :
                          str(role) \in role_dependencies[mid]}

\* second loop: the held, untargeted roles that require a held, untargeted role
ForcedRemove(guild, role_dependencies, current_roles, target_roles) ==
    {dep_role \in current_roles \ target_roles :
        \E role \in current_roles \ target_roles :
            \E dep_role_id \in DOMAIN role_dependencies :
                /\ str(role) \in role_dependencies[dep_role_id]
                /\ get_role(guild, int(dep_role_id)) = dep_role}

\* a third loop followed by a fourth one that filters its result again
FinalAddRefiltered(guild, role_dependencies, current_roles, roles_to_add) ==
    LET kept(pool) ==
            {role \in pool :
                IF str(role) \in DOMAIN role_dependencies
                THEN \A req_role \in required_roles(guild, role_dependencies, role) :
                         req_role \in current_roles \/ req_role \in pool
                ELSE TRUE}
    IN  kept(kept(roles_to_add))

\* third loop: the provisional roles whose required roles are all held or provisional
FinalAdd(guild, role_dependencies, current_roles, roles_to_add) ==
    {role \in roles_to_add :
        IF str(role) \in DOMAIN role_dependencies
        THEN \A req_role \in required_roles(guild, role_dependencies, role) :
                 req_role \in current_roles \/ req_role \in roles_to_add
        ELSE TRUE}

\* the pair (final_roles_to_add, roles_to_remove)
check_role_dependencies(guild, role_dependencies, current_roles, target_roles) ==
    LET roles_to_add == ProvisionalAdd(guild, role_dependencies, current_roles, target_roles)
    IN  <<FinalAdd(guild, role_dependencies, current_roles, roles_to_add),
          ForcedRemove(guild, role_dependencies, current_roles, target_roles)>>

(***************************************************************************)
(* RoleManager._get_roles_for_user                                         *)
(*                                                                         *)
(* The attributes of a record are a function from attribute keys to        *)
(* stored values.  A stored value is [list |-> TRUE, v |-> the list] or,   *)
(* for a scalar, [list |-> FALSE, v |-> <<the scalar>>]; list is what      *)
(* isinstance(x, list) answers.  Values are strings.                       *)
(***************************************************************************)
OidKey == "urn:oid:1.3.6.1.4.1.5923.1.1.1.1"

\* the strings of the model that are not lower-case, with their str.lower()
UpperForms ==
    {<<"Student", "student">>, <<"STUDENT", "student">>, <<"Staff", "staff">>,
     <<"Admin", "admin">>}

\* str(value).lower()
lower(value) ==
    IF \E p \in UpperForms : p[1] = value
    THEN (CHOOSE p \in UpperForms : p[1] = value)[2]
    ELSE value

\* x in seq, for a list
InList(x, seq) == \E i \in 1..Len(seq) : seq[i] = x

\* set(seq)
ToSet(seq) == {seq[i] : i \in 1..Len(seq)}

\* a list of the elements of a set of integers
RECURSIVE ListOf(_)
ListOf(S) ==
    IF S = {}
    THEN <<>>
    ELSE LET least == CHOOSE x \in S : \A y \in S : x <= y
         IN  <<least>> \o ListOf(S \ {least})

\* oid_values without the lower-casing
oid_values_as_stored(attributes) ==
    IF OidKey \in DOMAIN attributes
    THEN IF attributes[OidKey].list
         THEN attributes[OidKey].v
         ELSE IF attributes[OidKey].v[1] # ""
              THEN <<attributes[OidKey].v[1]>>
              ELSE <<>>
    ELSE <<>>

\* oid_values that takes a scalar for no value at all
oid_values_lists_only(attributes) ==
    LET oid_list == IF OidKey \in DOMAIN attributes /\ attributes[OidKey].list
                    THEN attributes[OidKey].v
                    ELSE <<>>
    IN  [i \in 1..Len(oid_list) |-> lower(oid_list[i])]

\* oid_values: the classification attribute's values, coerced to a list and
\* lower-cased
oid_values(attributes) ==
    LET oid_list == IF OidKey \in DOMAIN attributes
                    THEN IF attributes[OidKey].list
                         THEN attributes[OidKey].v
                         ELSE IF attributes[OidKey].v[1] # ""
                              THEN <<attributes[OidKey].v[1]>>
                              ELSE <<>>
                    ELSE <<>>
    IN  [i \in 1..Len(oid_list) |-> lower(oid_list[i])]

\* a slot that appends whatever guild.get_role answers for a configured id
slot_role_unchecked(guild, role_id) ==
    IF role_id # NoRole THEN <<role_id>> ELSE <<>>

\* the role of a priority slot as a list: empty when the slot is not
\* configured or its role does not exist
slot_role(guild, role_id) ==
    IF role_id # NoRole /\ get_role(guild, role_id) # NoRole
    THEN <<get_role(guild, role_id)>>
    ELSE <<>>

\* a classification in which every matching slot fires
priority_roles_fall_through(guild, config, values) ==
    (IF InList("student", values) THEN slot_role(guild, config.student_role_id) ELSE <<>>)
    \o (IF \E val \in {"faculty", "staff", "employee"} : InList(val, values)
        THEN slot_role(guild, config.faculty_staff_role_id) ELSE <<>>)
    \o (IF InList("alum", values) THEN slot_role(guild, config.alum_role_id) ELSE <<>>)

\* a classification in which a matching slot that gives no role lets the
\* next matching slot fire
priority_roles_skip_empty(guild, config, values) ==
    IF InList("student", values) /\ slot_role(guild, config.student_role_id) # <<>>
    THEN slot_role(guild, config.student_role_id)
    ELSE IF (\E val \in {"faculty", "staff", "employee"} : InList(val, values))
            /\ slot_role(guild, config.faculty_staff_role_id) # <<>>
         THEN slot_role(guild, config.faculty_staff_role_id)
         ELSE IF InList("alum", values)
              THEN slot_role(guild, config.alum_role_id)
              ELSE <<>>

\* the if / elif / elif of the priority slots: roles_to_assign after it
priority_roles(guild, config, values) ==
    IF InList("student", values)
    THEN slot_role(guild, config.student_role_id)
    ELSE IF \E val \in {"faculty", "staff", "employee"} : InList(val, values)
         THEN slot_role(guild, config.faculty_staff_role_id)
         ELSE IF InList("alum", values)
              THEN slot_role(guild, config.alum_role_id)
              ELSE <<>>

\* user_attribute_values: the stored value of a mapped key, coerced to a list
user_attribute_values(stored) == stored.v

\* if value in role_mapping: guild.get_role(role_mapping[value]); None when
\* the value, as stored, is not a key of the mapping
mapped_role(guild, role_mapping, value) ==
    IF value \in DOMAIN role_mapping
    THEN get_role(guild, role_mapping[value])
    ELSE NoRole

\* the loop over the values of one mapped attribute
RECURSIVE add_mapped_values(_, _, _, _)
add_mapped_values(guild, role_mapping, values, roles_to_assign) ==
    IF values = <<>>
    THEN roles_to_assign
    ELSE LET value == Head(values)
             role == mapped_role(guild, role_mapping, value)
         IN  add_mapped_values(guild, role_mapping, Tail(values),
                 IF role # NoRole /\ ~InList(role, roles_to_assign)
                 THEN Append(roles_to_assign, role)
                 ELSE roles_to_assign)

\* the loop over role_mappings.items(), in the dict's insertion order
RECURSIVE add_mapped_roles(_, _, _, _)
add_mapped_roles(guild, role_mappings, attributes, roles_to_assign) ==
    IF role_mappings = <<>>
    THEN roles_to_assign
    ELSE LET attribute_key == Head(role_mappings).key
             role_mapping == Head(role_mappings).map
         IN  add_mapped_roles(guild, Tail(role_mappings), attributes,
                 IF attribute_key \in DOMAIN attributes
                 THEN add_mapped_values(guild, role_mapping,
                          user_attribute_values(attributes[attribute_key]),
                          roles_to_assign)
                 ELSE roles_to_assign)

\* the list roles_to_assign that _get_roles_for_user returns
get_roles_for_user(guild, config, user_data) ==
    add_mapped_roles(guild, config.role_mappings, user_data.attributes,
        priority_roles(guild, config, oid_values(user_data.attributes)))

(***************************************************************************)
(* RoleManager._get_saml_user_data                                         *)
(*                                                                         *)
(* saml_users is [columns |-> the columns of the table, row |-> the        *)
(* member's row]; a row is [present |-> BOOLEAN, attributes |-> ...].      *)
(* The value returned is [found |-> FALSE, ...] for None.                  *)
(***************************************************************************)
NoAttributes == [k \in {} |-> [list |-> TRUE, v |-> <<>>]]
NoUserData == [found |-> FALSE, attributes |-> NoAttributes]

\* json.dumps(attributes), and what the driver gives for the JSONB column:
\* text says that the value is a str, which json.loads decodes
json_dumps(attributes) == [text |-> TRUE, value |-> attributes]
json_loads(column) == column.value

\* result['attributes'], decoded when it is a str
row_attributes(column) == IF column.text THEN json_loads(column) ELSE column.value

NoRow == [present |-> FALSE, attributes |-> json_dumps(NoAttributes)]

\* the columns of CREATE TABLE IF NOT EXISTS saml_users in SAMLAuth._setup_database
SamlAuthColumns ==
    {"id", "discord_user_id", "attributes", "verification_date", "reminder_date",
     "expiration_date", "created_at", "updated_at"}

\* the columns the SELECT of _get_saml_user_data names; the query raises,
\* and the except clause returns None, when the table lacks one of them
SelectedColumns == {"saml_nameid", "attributes"}

\* if not self.db_pool: return None, and self.db_pool.acquire(): a
\* connection is acquired from an open pool; without a pool the lookup
\* returns None, and on a closed pool acquire() raises and the except
\* clause returns None
acquires(pool) == pool = OpenPool

\* a query that answers a missing row with an empty record instead of None
fetchrow_default(table) ==
    IF SelectedColumns \subseteq table.columns
    THEN [found |-> TRUE, attributes |-> row_attributes(table.row.attributes)]
    ELSE NoUserData

\* conn.fetchrow('SELECT saml_nameid, attributes ...') on the acquired
\* connection, and the value _get_saml_user_data returns for its result
fetchrow(table) ==
    IF ~(SelectedColumns \subseteq table.columns)
    THEN NoUserData
    ELSE IF table.row.present
         THEN [found |-> TRUE, attributes |-> row_attributes(table.row.attributes)]
         ELSE NoUserData

(***************************************************************************)
(* RoleManager.sync_user_roles, one step per await                         *)
(***************************************************************************)
IdleRun ==
    [pc |-> "idle", user_data |-> NoUserData, target_roles |-> <<>>,
     target_roles_set |-> {}, current_roles |-> {}, roles_to_add |-> {},
     roles_to_remove |-> {}, result |-> FALSE, calls |-> <<>>, steps |-> <<>>,
     seen_done |-> {}, read_first |-> FALSE,
     pending |-> {}, final_roles_to_add |-> {}]

\* the two platform calls of the try block, in the order of the statements
try_block_add_first == <<"add_roles", "remove_roles">>

try_block == <<"remove_roles", "add_roles">>

\* the roles a platform call is made with
call_roles(run, op) ==
    IF op = "remove_roles" THEN run.roles_to_remove ELSE run.roles_to_add

\* the first statement of the try block, from statement i on, whose role set
\* is not empty; "done" when the block falls through to return True
RECURSIVE next_call(_, _)
next_call(run, i) ==
    IF i > Len(try_block)
    THEN "done"
    ELSE IF call_roles(run, try_block[i]) # {}
         THEN try_block[i]
         ELSE next_call(run, i + 1)

\* the position of a call in the try block
call_index(op) == CHOOSE i \in 1..Len(try_block) : try_block[i] = op

\* an addition made as member.edit(roles=roles), which replaces the member's roles
apply_call_edit(current_roles, op, roles) ==
    IF op = "remove_roles" THEN current_roles \ roles ELSE roles

\* member.remove_roles(*roles) and member.add_roles(*roles) on the platform
apply_call(current_roles, op, roles) ==
    IF op = "remove_roles" THEN current_roles \ roles ELSE current_roles \cup roles

\* lines 184-186: no user data returns False
after_fetch(run, user_data) ==
    IF ~user_data.found
    THEN [run EXCEPT !.user_data = user_data, !.pc = "done", !.result = FALSE]
    ELSE [run EXCEPT !.user_data = user_data, !.pc = "select"]

\* lines 188-189
after_select(run, target_roles) ==
    [run EXCEPT !.target_roles = target_roles,
                !.target_roles_set = ToSet(target_roles),
                !.pc = "check"]

\* lines 191-197: the roles read from the member, the two sets, then the
\* first call of the try block
after_check(run, current_roles, pair) ==
    LET computed == [run EXCEPT !.current_roles = current_roles,
                                !.roles_to_add = pair[1], !.roles_to_remove = pair[2]]
        next == next_call(computed, 1)
    IN  [computed EXCEPT !.pc = next, !.result = (next = "done")]

\* a platform call returned: the next statement of the try block, or return True
after_call(run, op) ==
    LET next == next_call(run, call_index(op) + 1)
    IN  [run EXCEPT !.pc = next, !.result = (next = "done"),
                    !.calls = Append(@, [op |-> op, roles |-> call_roles(run, op), ok |-> TRUE])]

\* an except clause that logs the failure and goes on with the next statement
on_http_exception_continue(run, op) ==
    LET next == next_call(run, call_index(op) + 1)
    IN  [run EXCEPT !.pc = next, !.result = FALSE,
                    !.calls = Append(@, [op |-> op, roles |-> call_roles(run, op), ok |-> FALSE])]

\* lines 206-208: a platform call raised discord.HTTPException: return False
on_http_exception(run, op) ==
    [run EXCEPT !.pc = "done", !.result = FALSE,
                !.calls = Append(@, [op |-> op, roles |-> call_roles(run, op), ok |-> FALSE])]

\* the step a run has taken, recorded with the runs that had returned before
\* the run began and with whether the run read the member's roles before any
\* run had made a platform call
Step(r, name, run) ==
    runs' = [runs EXCEPT ![r] =
                [run EXCEPT !.steps = Append(@, name),
                            !.seen_done = IF name = "fetch"
                                          THEN {q \in Runs : runs[q].pc = "done"}
                                          ELSE @,
                            !.read_first = IF name = "check"
                                           THEN \A q \in Runs : runs[q].calls = <<>>
                                           ELSE @]]

\* RoleManager._setup_database: the task created by __init__ sets the pool
SetupDatabase ==
    /\ db_pool = NoPool
    /\ db_pool' = OpenPool
    /\ UNCHANGED <<commands, guild_roles, guild_config, saml_users, member_roles, runs, samlauth>>

\* RoleManager.cog_unload: with a pool set, a task of db_pool.close() is
\* created; the step is that task closing the pool.  The attribute keeps
\* the closed pool
CogUnload ==
    /\ db_pool = OpenPool
    /\ db_pool' = ClosedPool
    /\ UNCHANGED <<commands, guild_roles, guild_config, saml_users, member_roles, runs, samlauth>>

\* sync_user_roles is called and calls _get_saml_user_data, which tests the
\* pool and acquires a connection, lines 55-59; the calls of
\* sync_user_roles are numbered in the order in which they begin
Fetch(r) ==
    /\ runs[r].pc = "idle"
    /\ \A q \in Runs : q < r => runs[q].pc # "idle"
    /\ Step(r, "fetch", IF acquires(db_pool)
                        THEN [runs[r] EXCEPT !.pc = "fetchrow"]
                        ELSE after_fetch(runs[r], NoUserData))
    /\ UNCHANGED <<commands, guild_roles, guild_config, db_pool, saml_users, member_roles, samlauth>>

\* await conn.fetchrow(...) is done, lines 60-73: the row is read on the
\* acquired connection, whatever has become of the pool since
FetchRow(r) ==
    /\ runs[r].pc = "fetchrow"
    /\ Step(r, "fetchrow", after_fetch(runs[r], fetchrow(saml_users)))
    /\ UNCHANGED <<commands, guild_roles, guild_config, db_pool, saml_users, member_roles, samlauth>>

\* target_roles = await self._get_roles_for_user(member.guild, user_data)
Select(r) ==
    /\ runs[r].pc = "select"
    /\ Step(r, "select",
            after_select(runs[r],
                get_roles_for_user(guild_roles, guild_config, runs[r].user_data)))
    /\ UNCHANGED <<commands, guild_roles, guild_config, db_pool, saml_users, member_roles, samlauth>>

\* roles_to_add, roles_to_remove = await self._check_role_dependencies(...)
Check(r) ==
    /\ runs[r].pc = "check"
    /\ Step(r, "check",
            after_check(runs[r], member_roles,
                check_role_dependencies(guild_roles, guild_config.role_dependencies,
                                        member_roles, runs[r].target_roles_set)))
    /\ UNCHANGED <<commands, guild_roles, guild_config, db_pool, saml_users, member_roles, samlauth>>

\* a call that raises discord.HTTPException: the platform is asked for one
\* role at a time, so the roles asked for before the request that failed
\* are applied
applied_before_failure(roles) == (SUBSET roles) \ {roles}

\* await member.remove_roles(*roles_to_remove, ...): the call takes effect
\* and returns, or raises discord.HTTPException
RemoveRoles(r) ==
    /\ runs[r].pc = "remove_roles"
    /\ \/ /\ member_roles' = apply_call(member_roles, "remove_roles", runs[r].roles_to_remove)
          /\ Step(r, "remove_roles", after_call(runs[r], "remove_roles"))
       \/ /\ \E applied \in applied_before_failure(runs[r].roles_to_remove) :
                member_roles' = apply_call(member_roles, "remove_roles", applied)
          /\ Step(r, "remove_roles", on_http_exception(runs[r], "remove_roles"))
    /\ UNCHANGED <<commands, guild_roles, guild_config, db_pool, saml_users, samlauth>>

\* await member.add_roles(*roles_to_add, ...): the call takes effect and
\* returns, or raises discord.HTTPException
AddRoles(r) ==
    /\ runs[r].pc = "add_roles"
    /\ \/ /\ member_roles' = apply_call(member_roles, "add_roles", runs[r].roles_to_add)
          /\ Step(r, "add_roles", after_call(runs[r], "add_roles"))
       \/ /\ \E applied \in applied_before_failure(runs[r].roles_to_add) :
                member_roles' = apply_call(member_roles, "add_roles", applied)
          /\ Step(r, "add_roles", on_http_exception(runs[r], "add_roles"))
    /\ UNCHANGED <<commands, guild_roles, guild_config, db_pool, saml_users, samlauth>>

(***************************************************************************)
(* Inputs.                                                                 *)
(***************************************************************************)
\* the subsets of S of at most k elements
RECURSIVE SubsetsUpTo(_, _)
SubsetsUpTo(S, k) ==
    IF k = 0
    THEN {{}}
    ELSE LET smaller == SubsetsUpTo(S, k - 1)
         IN  smaller \cup {p \cup {e} : p \in smaller, e \in S}

\* role_dependencies as dependency_add builds it from pairs <<target, required>>:
\* an entry per target, no empty entry
dependencies_of(edges) ==
    [target_id \in {str(e[1]) : e \in edges} |->
        {str(e[2]) : e \in {d \in edges : str(d[1]) = target_id}}]

Dependencies(ids, k) == {dependencies_of(edges) : edges \in SubsetsUpTo(ids \X ids, k)}

\* the parts of the chain in which every role requires the next one
ChainDependencies(ids) ==
    {dependencies_of(edges) : edges \in SUBSET {<<i, i + 1>> : i \in {j \in ids : j + 1 \in ids}}}

\* default_guild, with the given dependencies
DefaultConfig(role_dependencies) ==
    [role_mappings |-> <<>>, role_dependencies |-> role_dependencies,
     student_role_id |-> NoRole, faculty_staff_role_id |-> NoRole,
     alum_role_id |-> NoRole]

NoTable == [columns |-> SamlAuthColumns, row |-> NoRow]

\* SAMLAuth.__init__ and default_guild: no pool, no web server, every guild
\* disabled with the default port, and the task of _setup_database created.
\* An AppRunner and a TCPSite are named by the id of the coroutine that
\* made them (None is 0).  web_runner and web_site are the attributes;
\* runner_setup is the set of the runners whose setup() is done and whose
\* cleanup() is not; site_port[s] and site_runner[s] are the port and the
\* runner that site s was made with; listening is the set of the sites that
\* are started and not stopped, which accept connections and which their
\* runner stops in cleanup(); setup is the await at which _setup_database
\* is suspended; unloaded says that cog_unload ran; serial records that so
\* far every enable, disable and port command ran to completion before the
\* next one was given
NoRunner == 0
NoSite == 0
NoPort == 0
DefaultPort == 6969
SamlAuthInit ==
    [db_pool |-> NoPool,
     setup |-> "create_pool",
     enabled |-> [g \in Guilds |-> FALSE],
     web_port |-> [g \in Guilds |-> DefaultPort],
     web_runner |-> NoRunner,
     web_site |-> NoSite,
     runner_setup |-> {},
     site_port |-> [c \in CommandIds |-> NoPort],
     site_runner |-> [c \in CommandIds |-> NoRunner],
     listening |-> {},
     unloaded |-> FALSE,
     serial |-> TRUE]

\* a coroutine of a command or a task: the await it is suspended at (pc),
\* the command, its guild, its arguments, the local it carries over the
\* await (the port of guild_config, or the dict it will store), the object
\* it awaits, and the sites that a cleanup() it awaits has yet to stop
NoGuild == 0
NoCommand ==
    [pc |-> "done", name |-> "", guild |-> NoGuild, args |-> <<>>, local |-> <<>>,
     awaited |-> 0, sites |-> {}]
NoCommands == [c \in CommandIds |-> NoCommand]

\* the coroutines that have not returned
InFlight(cmds) == {c \in CommandIds : cmds[c].pc # "done"}

\* the awaits on a site, and the awaits on a runner
SiteAwaits == {"web_site.stop", "web_site.start"}
RunnerAwaits == {"web_runner.setup", "web_runner.cleanup", "web_runner.cleanup: site.stop"}

\* the sites that the cog or a coroutine references, or that listen
SiteRefs(sa, cmds) ==
    ({sa.web_site} \cup sa.listening
     \cup {cmds[c].awaited : c \in {d \in CommandIds : cmds[d].pc \in SiteAwaits}}
     \cup UNION {cmds[c].sites : c \in CommandIds}) \ {NoSite}

\* the runners that the cog, a coroutine or a referenced site references
RunnerRefs(sa, cmds) ==
    ({sa.web_runner}
     \cup {cmds[c].awaited : c \in {d \in CommandIds : cmds[d].pc \in RunnerAwaits}}
     \cup {sa.site_runner[s] : s \in SiteRefs(sa, cmds)}) \ {NoRunner}

\* an id is in use while its coroutine runs and while its runner or its
\* site is referenced
InUse(sa, cmds) == InFlight(cmds) \cup SiteRefs(sa, cmds) \cup RunnerRefs(sa, cmds)

\* a new coroutine can be given an id
CanStart(sa, cmds) ==
    /\ Cardinality(InFlight(cmds)) < NumCommands
    /\ CommandIds \ InUse(sa, cmds) # {}

\* the id of a new coroutine: the least id not in use
NewId(sa, cmds) ==
    CHOOSE c \in CommandIds \ InUse(sa, cmds) :
        \A d \in CommandIds \ InUse(sa, cmds) : c <= d

\* the coroutines after a command is given or a task is created: the new
\* one is suspended at first_await
given(sa, cmds, name, g, args, first_await) ==
    [cmds EXCEPT ![NewId(sa, cmds)] =
        [NoCommand EXCEPT !.pc = first_await, !.name = name, !.guild = g,
                          !.args = args]]

\* the cog without the runners and sites that nothing references any more
collected(sa, cmds) ==
    [sa EXCEPT
        !.site_port = [s \in CommandIds |->
            IF s \in SiteRefs(sa, cmds) \cup InFlight(cmds) THEN @[s] ELSE NoPort],
        !.site_runner = [s \in CommandIds |->
            IF s \in SiteRefs(sa, cmds) \cup InFlight(cmds) THEN @[s] ELSE NoRunner],
        !.runner_setup = @ \cap (RunnerRefs(sa, cmds) \cup InFlight(cmds))]

(***************************************************************************)
(* SpecResolve: _check_role_dependencies on every current and every target *)
(* set, on every graph of at most MaxEdges pairs over RoleIds, where the   *)
(* last role id may be the id of a deleted role, and on every part of the  *)
(* chain 1 -> 2 -> ... -> NumChainRoles.                                   *)
(***************************************************************************)
InitResolve ==
    /\ \/ /\ guild_roles \in {RoleIds, RoleIds \ {NumRoles}}
          /\ guild_config \in {DefaultConfig(d) : d \in Dependencies(RoleIds, MaxEdges)}
       \/ /\ guild_roles = ChainRoleIds
          /\ guild_config \in {DefaultConfig(d) : d \in ChainDependencies(ChainRoleIds)}
    /\ db_pool = OpenPool
    /\ saml_users = NoTable
    /\ samlauth = SamlAuthInit
    /\ commands = NoCommands
    /\ member_roles \in SUBSET guild_roles
    /\ \E target \in SUBSET guild_roles :
          runs = [r \in Runs |->
                    IF r = 1
                    THEN [IdleRun EXCEPT !.pc = "check",
                                         !.user_data = [found |-> TRUE, attributes |-> NoAttributes],
                                         !.target_roles = ListOf(target),
                                         !.target_roles_set = target]
                    ELSE IdleRun]

NextResolve == \E r \in Runs : Check(r)

SpecResolve == InitResolve /\ [][NextResolve]_vars

(***************************************************************************)
(* SpecSelect: _get_roles_for_user on records whose classification         *)
(* attribute and "groups" attribute are absent, a scalar or a list of at   *)
(* most MaxValues values.  The faculty/staff slot is set to role 2, the     *)
(* student and the alum slot are unset or set to the roles 1 and 3; role 4 *)
(* is no slot's role; at most one of the four roles has been deleted from  *)
(* the guild.                                                              *)
(***************************************************************************)
OidWords == {"student", "Student", "STUDENT", "faculty", "staff", "employee", "alum", "member"}
GroupWords == {"admin", "Admin"}
SelectRoleIds == {1, 2, 3, 4}

ListsUpTo(words, n) == UNION {[1..k -> words] : k \in 0..n}

StoredValues(words, n) ==
    {[list |-> TRUE, v |-> l] : l \in ListsUpTo(words, n)}
    \cup {[list |-> FALSE, v |-> <<w>>] : w \in words \cup {""}}

\* the records with the given stored values (or none) under the two keys
Records(oids, groups) ==
    {[k \in keys |-> IF k = OidKey THEN o ELSE g] :
        keys \in SUBSET {OidKey, "groups"}, o \in oids, g \in groups}

SelectRecords ==
    Records(StoredValues(OidWords, MaxValues), StoredValues(GroupWords, 1))

\* role_mappings as mapping_add builds it: a list of keys in insertion
\* order, each with a non-empty dict from value to role id
SelectMappings ==
    { <<>>,
      <<[key |-> "groups", map |-> ("admin" :> 4)]>>,
      <<[key |-> OidKey, map |-> ("alum" :> 3) @@ ("student" :> 4)]>>,
      <<[key |-> "groups", map |-> ("admin" :> 4) @@ ("Admin" :> 2)],
        [key |-> OidKey, map |-> ("Student" :> 4)]>> }

SelectConfigs ==
    {[role_mappings |-> m, role_dependencies |-> dependencies_of({}),
      student_role_id |-> s, faculty_staff_role_id |-> f, alum_role_id |-> a] :
        m \in SelectMappings, s \in {NoRole, 1}, f \in {2}, a \in {NoRole, 3}}

InitSelect ==
    /\ guild_roles \in {SelectRoleIds \ deleted : deleted \in SubsetsUpTo(SelectRoleIds, 1)}
    /\ guild_config \in SelectConfigs
    /\ db_pool = OpenPool
    /\ saml_users = NoTable
    /\ samlauth = SamlAuthInit
    /\ commands = NoCommands
    /\ member_roles = {}
    /\ \E attributes \in SelectRecords :
          runs = [r \in Runs |->
                    IF r = 1
                    THEN [IdleRun EXCEPT !.pc = "select",
                                         !.user_data = [found |-> TRUE, attributes |-> attributes]]
                    ELSE IdleRun]

NextSelect == \E r \in Runs : Select(r)

SpecSelect == InitSelect /\ [][NextSelect]_vars

(***************************************************************************)
(* Spec: the calls of sync_user_roles for one member (by on_member_join,   *)
(* sync and syncall), interleaved at their awaits, on a configuration and  *)
(* a table that do not change; the cog's pool is set by _setup_database    *)
(* and closed by cog_unload.  The table is the one SAMLAuth creates or one *)
(* that also has a saml_nameid column.                                     *)
(* The slots have the roles 1 (student), 2 (faculty/staff) and 3 (alum),   *)
(* the mapping table maps two values of "groups"; the dependencies are     *)
(* at most one pair of two roles of SyncRoleIds or a part of the chain     *)
(* 1 -> 2 -> ... -> NumSyncRoles.                                          *)
(***************************************************************************)
SyncMappings == <<[key |-> "groups", map |-> ("admin" :> 3) @@ ("mod" :> 2)]>>

\* a single pair between two different roles, or a part of the chain
SyncDependencies ==
    {dependencies_of({pair}) : pair \in {p \in SyncRoleIds \X SyncRoleIds : p[1] # p[2]}}
    \cup ChainDependencies(SyncRoleIds)

SyncConfigs ==
    {[role_mappings |-> SyncMappings, role_dependencies |-> d,
      student_role_id |-> 1, faculty_staff_role_id |-> 2, alum_role_id |-> 3] :
        d \in {dependencies_of({})} \cup SyncDependencies}

\* records whose target roles are {}, {1}, {3} and {2, 3}
SyncRecords ==
    { (OidKey :> [list |-> TRUE, v |-> <<"member">>]),
      (OidKey :> [list |-> FALSE, v |-> <<"Student">>]),
      ("groups" :> [list |-> TRUE, v |-> <<"admin">>]),
      (OidKey :> [list |-> TRUE, v |-> <<"staff", "alum">>])
          @@ ("groups" :> [list |-> TRUE, v |-> <<"admin", "mod">>]) }

\* the table that SAMLAuth creates, in which every query of RoleManager
\* fails, and one that also has a saml_nameid column
SyncTables ==
    {[columns |-> SamlAuthColumns, row |-> row] :
        row \in {NoRow, [present |-> TRUE, attributes |-> json_dumps(NoAttributes)]}}
    \cup {[columns |-> SamlAuthColumns \cup {"saml_nameid"}, row |-> row] :
        row \in {NoRow} \cup {[present |-> TRUE, attributes |-> json_dumps(a)] : a \in SyncRecords}}

Init ==
    /\ guild_roles = SyncRoleIds
    /\ guild_config \in SyncConfigs
    /\ db_pool = NoPool
    /\ saml_users \in SyncTables
    /\ samlauth = SamlAuthInit
    /\ commands = NoCommands
    /\ member_roles \in SUBSET guild_roles
    /\ runs = [r \in Runs |-> IdleRun]

Next ==
    \/ SetupDatabase
    \/ CogUnload
    \/ \E r \in Runs : Fetch(r)
    \/ \E r \in Runs : FetchRow(r)
    \/ \E r \in Runs : Select(r)
    \/ \E r \in Runs : Check(r)
    \/ \E r \in Runs : RemoveRoles(r)
    \/ \E r \in Runs : AddRoles(r)

Spec == Init /\ [][Next]_vars

(***************************************************************************)
(* RoleManager._check_role_dependencies, one step per iteration of its     *)
(* three for loops.  pending holds the elements of the set a loop iterates *)
(* over that it has not visited yet; a set is visited in any order.  The   *)
(* run is at "loop1", "loop2" or "loop3", and at "resolved" when the       *)
(* function has returned final_roles_to_add and roles_to_remove.           *)
(***************************************************************************)
LoopPcs == {"loop1", "loop2", "loop3"}

\* the set a loop iterates over
loop_set(run, loop) ==
    IF loop = "loop1" THEN run.target_roles_set
    ELSE IF loop = "loop2" THEN run.current_roles
    ELSE run.roles_to_add

\* the loop after a loop
loop_after(loop) ==
    IF loop = "check" THEN "loop1"
    ELSE IF loop = "loop1" THEN "loop2"
    ELSE IF loop = "loop2" THEN "loop3"
    ELSE "resolved"

\* the run at the first of the loops after loop that has an element to visit,
\* or at the return statement
RECURSIVE enter_loop_after(_, _)
enter_loop_after(run, loop) ==
    LET next == loop_after(loop)
    IN  IF next = "resolved"
        THEN [run EXCEPT !.pc = "resolved", !.pending = {}]
        ELSE IF loop_set(run, next) # {}
             THEN [run EXCEPT !.pc = next, !.pending = loop_set(run, next)]
             ELSE enter_loop_after(run, next)

\* the body of the first loop for one target role
loop1_body(guild, role_dependencies, run, role) ==
    IF str(role) \in DOMAIN role_dependencies
    THEN IF \A req_role \in required_roles(guild, role_dependencies, role) :
                req_role \in run.current_roles \/ req_role \in run.target_roles_set
         THEN [run EXCEPT !.roles_to_add = @ \cup {role}]
         ELSE run
    ELSE [run EXCEPT !.roles_to_add = @ \cup {role}]

\* the body of the second loop for one current role, with its inner loop
\* over role_dependencies.items()
loop2_body(guild, role_dependencies, run, role) ==
    IF role \notin run.target_roles_set
    THEN [run EXCEPT !.roles_to_remove = @ \cup
             {get_role(guild, int(dep_role_id)) :
                 dep_role_id \in {id \in DOMAIN role_dependencies :
                     /\ str(role) \in role_dependencies[id]
                     /\ get_role(guild, int(id)) # NoRole
                     /\ get_role(guild, int(id)) \in run.current_roles
                     /\ get_role(guild, int(id)) \notin run.target_roles_set}}]
    ELSE run

\* the body of the third loop for one provisional role
loop3_body(guild, role_dependencies, run, role) ==
    IF str(role) \in DOMAIN role_dependencies
    THEN IF \A req_role \in required_roles(guild, role_dependencies, role) :
                req_role \in run.current_roles \/ req_role \in run.roles_to_add
         THEN [run EXCEPT !.final_roles_to_add = @ \cup {role}]
         ELSE run
    ELSE [run EXCEPT !.final_roles_to_add = @ \cup {role}]

\* a worklist that puts the required roles of the visited role on the list
remaining_with_required(guild, role_dependencies, pending, role) ==
    (pending \ {role})
    \cup (IF str(role) \in DOMAIN role_dependencies
          THEN required_roles(guild, role_dependencies, role)
          ELSE {})

\* the elements a for loop has yet to visit after it visited role
remaining(guild, role_dependencies, pending, role) == pending \ {role}

\* one iteration: the body for the visited role, then the next element, the
\* next loop or the return statement
after_iteration(guild, role_dependencies, run, role) ==
    LET done == IF run.pc = "loop1" THEN loop1_body(guild, role_dependencies, run, role)
                ELSE IF run.pc = "loop2" THEN loop2_body(guild, role_dependencies, run, role)
                ELSE loop3_body(guild, role_dependencies, run, role)
        rest == remaining(guild, role_dependencies, run.pending, role)
    IN  IF rest # {}
        THEN [done EXCEPT !.pending = rest]
        ELSE enter_loop_after(done, run.pc)

\* lines 134-138: the configuration and the member's roles are read
BeginCheck(r) ==
    /\ runs[r].pc = "check"
    /\ Step(r, "begin",
            enter_loop_after([runs[r] EXCEPT !.current_roles = member_roles,
                                             !.roles_to_add = {},
                                             !.roles_to_remove = {},
                                             !.final_roles_to_add = {}], "check"))
    /\ UNCHANGED <<commands, guild_roles, guild_config, db_pool, saml_users, member_roles, samlauth>>

\* an iteration of the first loop (lines 141-154)
AddLoop(r) ==
    /\ runs[r].pc = "loop1"
    /\ \E role \in runs[r].pending :
          runs' = [runs EXCEPT ![r] =
                      after_iteration(guild_roles, guild_config.role_dependencies, runs[r], role)]
    /\ UNCHANGED <<commands, guild_roles, guild_config, db_pool, saml_users, member_roles, samlauth>>

\* an iteration of the second loop (lines 156-164)
RemoveLoop(r) ==
    /\ runs[r].pc = "loop2"
    /\ \E role \in runs[r].pending :
          runs' = [runs EXCEPT ![r] =
                      after_iteration(guild_roles, guild_config.role_dependencies, runs[r], role)]
    /\ UNCHANGED <<commands, guild_roles, guild_config, db_pool, saml_users, member_roles, samlauth>>

\* an iteration of the third loop (lines 166-178)
FinalLoop(r) ==
    /\ runs[r].pc = "loop3"
    /\ \E role \in runs[r].pending :
          runs' = [runs EXCEPT ![r] =
                      after_iteration(guild_roles, guild_config.role_dependencies, runs[r], role)]
    /\ UNCHANGED <<commands, guild_roles, guild_config, db_pool, saml_users, member_roles, samlauth>>

(***************************************************************************)
(* SpecLoops: the loops of _check_role_dependencies on every current and   *)
(* every target set, on the graphs made of the pairs of the ring           *)
(* 1 -> 2 -> ... -> NumRoles -> 1, of 2 -> 1 and of 1 -> 1.  The function  *)
(* has no await after its first statement, so it runs to its return.       *)
(***************************************************************************)
CycleDependencies(ids) ==
    LET n == Cardinality(ids)
    IN  {dependencies_of(edges) :
            edges \in SUBSET ({<<i, (i % n) + 1>> : i \in ids} \cup {<<2, 1>>, <<1, 1>>})}

InitLoops ==
    /\ guild_roles = RoleIds
    /\ guild_config \in {DefaultConfig(d) : d \in CycleDependencies(RoleIds)}
    /\ db_pool = OpenPool
    /\ saml_users = NoTable
    /\ samlauth = SamlAuthInit
    /\ commands = NoCommands
    /\ member_roles \in SUBSET guild_roles
    /\ \E target \in SUBSET guild_roles :
          runs = [r \in Runs |->
                    IF r = 1
                    THEN [IdleRun EXCEPT !.pc = "check",
                                         !.user_data = [found |-> TRUE, attributes |-> NoAttributes],
                                         !.target_roles = ListOf(target),
                                         !.target_roles_set = target]
                    ELSE IdleRun]

NextLoops ==
    \/ \E r \in Runs : BeginCheck(r)
    \/ \E r \in Runs : AddLoop(r)
    \/ \E r \in Runs : RemoveLoop(r)
    \/ \E r \in Runs : FinalLoop(r)

SpecLoops == InitLoops /\ [][NextLoops]_vars /\ WF_vars(NextLoops)

(***************************************************************************)
(* RoleManager.dependency_add and RoleManager.dependency_remove            *)
(***************************************************************************)
\* role_dependencies after [p]rolemanager dependency add target required
dependency_add(role_dependencies, target_id, required_id) ==
    LET entry == IF target_id \in DOMAIN role_dependencies
                 THEN role_dependencies[target_id]
                 ELSE {}
    IN  IF required_id \notin entry
        THEN [id \in DOMAIN role_dependencies \cup {target_id} |->
                 IF id = target_id THEN entry \cup {required_id} ELSE role_dependencies[id]]
        ELSE role_dependencies

\* role_dependencies after [p]rolemanager dependency remove target required:
\* an entry left empty is deleted
dependency_remove(role_dependencies, target_id, required_id) ==
    IF target_id \in DOMAIN role_dependencies /\ required_id \in role_dependencies[target_id]
    THEN LET entry == role_dependencies[target_id] \ {required_id}
         IN  [id \in IF entry = {}
                     THEN DOMAIN role_dependencies \ {target_id}
                     ELSE DOMAIN role_dependencies |->
                 IF id = target_id THEN entry ELSE role_dependencies[id]]
    ELSE role_dependencies

\* role_mappings after role_mappings[attribute][value] = role_id: a new
\* attribute goes to the end of the dict
RECURSIVE mapping_add(_, _, _, _)
mapping_add(role_mappings, attribute, value, role_id) ==
    IF role_mappings = <<>>
    THEN <<[key |-> attribute, map |-> (value :> role_id)]>>
    ELSE IF Head(role_mappings).key = attribute
         THEN <<[key |-> attribute,
                 map |-> [v \in DOMAIN Head(role_mappings).map \cup {value} |->
                             IF v = value THEN role_id ELSE Head(role_mappings).map[v]]]>>
              \o Tail(role_mappings)
         ELSE <<Head(role_mappings)>>
              \o mapping_add(Tail(role_mappings), attribute, value, role_id)

\* attribute in role_mappings and value in role_mappings[attribute]
mapping_found(role_mappings, attribute, value) ==
    \E i \in DOMAIN role_mappings :
        /\ role_mappings[i].key = attribute
        /\ value \in DOMAIN role_mappings[i].map

\* role_mappings after del role_mappings[attribute][value]: an attribute
\* left without values is deleted
RECURSIVE mapping_remove(_, _, _)
mapping_remove(role_mappings, attribute, value) ==
    IF role_mappings = <<>>
    THEN <<>>
    ELSE IF Head(role_mappings).key = attribute
         THEN LET map == [v \in DOMAIN Head(role_mappings).map \ {value} |->
                             Head(role_mappings).map[v]]
              IN  IF DOMAIN map = {}
                  THEN Tail(role_mappings)
                  ELSE <<[key |-> attribute, map |-> map]>> \o Tail(role_mappings)
         ELSE <<Head(role_mappings)>>
              \o mapping_remove(Tail(role_mappings), attribute, value)

\* the coroutine goes on after config.all(): it returns, or awaits the set
\* of the dict it changed
config_read(c, set_needed, field, local) ==
    commands' = [commands EXCEPT ![c] =
        IF set_needed
        THEN [@ EXCEPT !.pc = field, !.local = local]
        ELSE NoCommand]

\* [p]rolemanager dependency add target_role required_role
DependencyAdd(target_role, required_role) ==
    /\ CanStart(samlauth, commands)
    /\ commands' = given(samlauth, commands, "dependency_add", NoGuild,
                         <<target_role, required_role>>, "config.all")
    /\ UNCHANGED <<guild_roles, guild_config, db_pool, saml_users, member_roles, runs,
                   samlauth>>

\* [p]rolemanager dependency remove target_role required_role
DependencyRemove(target_role, required_role) ==
    /\ CanStart(samlauth, commands)
    /\ commands' = given(samlauth, commands, "dependency_remove", NoGuild,
                         <<target_role, required_role>>, "config.all")
    /\ UNCHANGED <<guild_roles, guild_config, db_pool, saml_users, member_roles, runs,
                   samlauth>>

\* config.all() is done in dependency_add or dependency_remove: the dict
\* that was read is changed, and stored when the command changed it
DependencyConfigAll(c) ==
    /\ commands[c].pc = "config.all"
    /\ commands[c].name \in {"dependency_add", "dependency_remove"}
    /\ LET target_id == str(commands[c].args[1])
           required_id == str(commands[c].args[2])
           role_dependencies == guild_config.role_dependencies
           held == /\ target_id \in DOMAIN role_dependencies
                   /\ required_id \in role_dependencies[target_id]
       IN  IF commands[c].name = "dependency_add"
           THEN config_read(c, ~held, "role_dependencies.set",
                    dependency_add(role_dependencies, target_id, required_id))
           ELSE config_read(c, held, "role_dependencies.set",
                    dependency_remove(role_dependencies, target_id, required_id))
    /\ UNCHANGED <<guild_roles, guild_config, db_pool, saml_users, member_roles, runs,
                   samlauth>>

\* await ...role_dependencies.set(role_dependencies) is done
RoleDependenciesSet(c) ==
    /\ commands[c].pc = "role_dependencies.set"
    /\ guild_config' = [guild_config EXCEPT !.role_dependencies = commands[c].local]
    /\ commands' = [commands EXCEPT ![c] = NoCommand]
    /\ UNCHANGED <<guild_roles, db_pool, saml_users, member_roles, runs, samlauth>>

\* [p]rolemanager mapping add attribute value role; mapping addoid value
\* role is the same command with the attribute OidKey
MappingAdd(attribute, value, role) ==
    /\ CanStart(samlauth, commands)
    /\ commands' = given(samlauth, commands, "mapping_add", NoGuild,
                         <<attribute, value, role>>, "config.all")
    /\ UNCHANGED <<guild_roles, guild_config, db_pool, saml_users, member_roles, runs,
                   samlauth>>

\* [p]rolemanager mapping remove attribute value; mapping removeoid value is
\* the same command with the attribute OidKey
MappingRemove(attribute, value) ==
    /\ CanStart(samlauth, commands)
    /\ commands' = given(samlauth, commands, "mapping_remove", NoGuild,
                         <<attribute, value>>, "config.all")
    /\ UNCHANGED <<guild_roles, guild_config, db_pool, saml_users, member_roles, runs,
                   samlauth>>

\* config.all() is done in a mapping command: mapping add always stores,
\* mapping remove stores when it found the value
MappingConfigAll(c) ==
    /\ commands[c].pc = "config.all"
    /\ commands[c].name \in {"mapping_add", "mapping_remove"}
    /\ LET args == commands[c].args
           role_mappings == guild_config.role_mappings
       IN  IF commands[c].name = "mapping_add"
           THEN config_read(c, TRUE, "role_mappings.set",
                    mapping_add(role_mappings, args[1], args[2], args[3]))
           ELSE config_read(c, mapping_found(role_mappings, args[1], args[2]),
                    "role_mappings.set",
                    mapping_remove(role_mappings, args[1], args[2]))
    /\ UNCHANGED <<guild_roles, guild_config, db_pool, saml_users, member_roles, runs,
                   samlauth>>

\* await ...role_mappings.set(role_mappings) is done
RoleMappingsSet(c) ==
    /\ commands[c].pc = "role_mappings.set"
    /\ guild_config' = [guild_config EXCEPT !.role_mappings = commands[c].local]
    /\ commands' = [commands EXCEPT ![c] = NoCommand]
    /\ UNCHANGED <<guild_roles, db_pool, saml_users, member_roles, runs, samlauth>>

\* [p]rolemanager priorityroles student role, facultystaff role, alum role,
\* up to await ..._role_id.set(role.id)
PriorityRole(slot, role) ==
    /\ CanStart(samlauth, commands)
    /\ commands' = given(samlauth, commands, "priorityroles", NoGuild,
                         <<slot, role>>, "role_id.set")
    /\ UNCHANGED <<guild_roles, guild_config, db_pool, saml_users, member_roles, runs,
                   samlauth>>

\* await ..._role_id.set(role.id) is done
PriorityRoleSet(c) ==
    /\ commands[c].pc = "role_id.set"
    /\ LET slot == commands[c].args[1]
           role == commands[c].args[2]
       IN  guild_config' =
               CASE slot = "student" -> [guild_config EXCEPT !.student_role_id = role]
                 [] slot = "facultystaff" ->
                        [guild_config EXCEPT !.faculty_staff_role_id = role]
                 [] slot = "alum" -> [guild_config EXCEPT !.alum_role_id = role]
    /\ commands' = [commands EXCEPT ![c] = NoCommand]
    /\ UNCHANGED <<guild_roles, db_pool, saml_users, member_roles, runs, samlauth>>

(***************************************************************************)
(* SpecDependency: the commands dependency add and dependency remove on    *)
(* roles of the guild, their coroutines resumed in any order, from the     *)
(* default configuration.                                                  *)
(***************************************************************************)
InitDependency ==
    /\ guild_roles = RoleIds
    /\ guild_config = DefaultConfig(dependencies_of({}))
    /\ db_pool = NoPool
    /\ saml_users = NoTable
    /\ samlauth = SamlAuthInit
    /\ commands = NoCommands
    /\ member_roles = {}
    /\ runs = [r \in Runs |-> IdleRun]

NextDependency ==
    \/ \E roles \in CommandRoleIds \X RoleIds : DependencyAdd(roles[1], roles[2])
    \/ \E roles \in CommandRoleIds \X RoleIds : DependencyRemove(roles[1], roles[2])
    \/ \E c \in CommandIds : DependencyConfigAll(c)
    \/ \E c \in CommandIds : RoleDependenciesSet(c)

SpecDependency == InitDependency /\ [][NextDependency]_vars

(***************************************************************************)
(* SpecMapping: the commands mapping add, mapping addoid, mapping remove,  *)
(* mapping removeoid and priorityroles on roles of the guild, their        *)
(* coroutines resumed in any order, from the default configuration.        *)
(***************************************************************************)
MappingAttributes == {"groups", OidKey}
MappingValues == {"admin"}
PrioritySlots == {"student", "facultystaff", "alum"}

InitMapping == InitDependency

NextMapping ==
    \/ \E command \in MappingAttributes \X MappingValues \X CommandRoleIds :
           MappingAdd(command[1], command[2], command[3])
    \/ \E command \in MappingAttributes \X MappingValues :
           MappingRemove(command[1], command[2])
    \/ \E c \in CommandIds : MappingConfigAll(c)
    \/ \E c \in CommandIds : RoleMappingsSet(c)
    \/ \E command \in PrioritySlots \X CommandRoleIds :
           PriorityRole(command[1], command[2])
    \/ \E c \in CommandIds : PriorityRoleSet(c)

SpecMapping == InitMapping /\ [][NextMapping]_vars

(***************************************************************************)
(* SAMLAuth: the web server, the commands enable, disable and port, and    *)
(* cog_unload.  One cog instance serves every guild: web_runner and        *)
(* web_site are its attributes, enabled and web_port are settings of each  *)
(* guild.  enable and disable await several times; each action below       *)
(* resumes coroutine c at the await it is suspended at, applies what the    *)
(* awaited call does and runs the code up to the next await.               *)
(*                                                                         *)
(* Config.set stores and AppRunner.setup sets the runner up.  A call that  *)
(* aiohttp is made with out of order has both outcomes, the call going     *)
(* through and the call raising: a TCPSite made with a runner that is not  *)
(* set up, the start of a site whose runner is not set up, and the stop of *)
(* a site that is not registered.  AppRunner.cleanup awaits the stop of    *)
(* each site registered with the runner.  A coroutine that raises ends.    *)
(***************************************************************************)
\* the ports the port command is given
Ports == {DefaultPort, DefaultPort + 1}

\* the port of the site self.web_site references, NoPort for None
web_site_port(sa) == IF sa.web_site = NoSite THEN NoPort ELSE sa.site_port[sa.web_site]

\* the ports on which a site accepts connections
listening_ports(sa) == {sa.site_port[s] : s \in sa.listening}

\* the coroutine returns, or ends with the exception it raised
returned(sa) == [sa |-> sa, cmd |-> NoCommand]

\* start_web_server, lines 282-291: self.web_runner = web.AppRunner(...),
\* then await self.web_runner.setup()
create_runner(sa, cmd, c) ==
    [sa |-> [sa EXCEPT !.web_runner = c],
     cmd |-> [cmd EXCEPT !.pc = "web_runner.setup", !.awaited = c]]

\* stop_web_server returns to its caller: start_web_server goes on with a
\* new runner, disable and the task of cog_unload return
after_stop_web_server(sa, cmd, c) ==
    IF cmd.name = "enable" THEN create_runner(sa, cmd, c) ELSE returned(sa)

\* stop_web_server from line 305: if self.web_runner: await cleanup()
stop_web_runner(sa, cmd, c) ==
    IF sa.web_runner # NoRunner
    THEN [sa |-> sa,
          cmd |-> [cmd EXCEPT !.pc = "web_runner.cleanup", !.awaited = sa.web_runner]]
    ELSE after_stop_web_server(sa, cmd, c)

\* SAMLAuth.stop_web_server from its first line to its first await
stop_web_server(sa, cmd, c) ==
    IF sa.web_site # NoSite
    THEN [sa |-> sa,
          cmd |-> [cmd EXCEPT !.pc = "web_site.stop", !.awaited = sa.web_site]]
    ELSE stop_web_runner(sa, cmd, c)

\* SAMLAuth.start_web_server after guild_config is read: a running server
\* is stopped first
start_web_server(sa, cmd, c) ==
    LET read == [cmd EXCEPT !.local = sa.web_port[cmd.guild]]
    IN  IF sa.web_runner # NoRunner
        THEN stop_web_server(sa, read, c)
        ELSE create_runner(sa, read, c)

\* site.stop() on a site: a registered site stops listening; the stop of a
\* site that is not registered goes through (TRUE) or raises (FALSE)
site_stop_outcomes(sa, site) == IF site \in sa.listening THEN {TRUE} ELSE {TRUE, FALSE}

\* cleanup() of a runner is done, line 307: self.web_runner = None
runner_cleaned_up(sa, runner) ==
    [sa EXCEPT !.runner_setup = @ \ {runner}, !.web_runner = NoRunner]

\* the step of coroutine c whose outcome is the pair next
Resume(c, next) ==
    /\ commands' = [commands EXCEPT ![c] = next.cmd]
    /\ samlauth' = collected(next.sa, [commands EXCEPT ![c] = next.cmd])
    /\ UNCHANGED <<guild_roles, guild_config, db_pool, saml_users, member_roles, runs>>

\* [p]samlauth enable in guild g, up to await ...enabled.set(True)
Enable(g) ==
    /\ ~samlauth.unloaded
    /\ CanStart(samlauth, commands)
    /\ commands' = given(samlauth, commands, "enable", g, <<>>, "enabled.set")
    /\ samlauth' = [samlauth EXCEPT !.serial = @ /\ InFlight(commands) = {}]
    /\ UNCHANGED <<guild_roles, guild_config, db_pool, saml_users, member_roles, runs>>

\* [p]samlauth disable in guild g, up to await ...enabled.set(False)
Disable(g) ==
    /\ ~samlauth.unloaded
    /\ CanStart(samlauth, commands)
    /\ commands' = given(samlauth, commands, "disable", g, <<>>, "enabled.set")
    /\ samlauth' = [samlauth EXCEPT !.serial = @ /\ InFlight(commands) = {}]
    /\ UNCHANGED <<guild_roles, guild_config, db_pool, saml_users, member_roles, runs>>

\* enabled.set(...) is done: enable calls start_web_server, which awaits
\* guild_from_id(guild_id).all(); disable calls stop_web_server
EnabledSet(c) ==
    /\ commands[c].pc = "enabled.set"
    /\ LET cmd == commands[c]
           sa == [samlauth EXCEPT !.enabled[cmd.guild] = (cmd.name = "enable")]
       IN  Resume(c, IF cmd.name = "enable"
                     THEN [sa |-> sa, cmd |-> [cmd EXCEPT !.pc = "config.all"]]
                     ELSE stop_web_server(sa, cmd, c))

\* guild_from_id(guild_id).all() is done, line 277
GuildConfigAll(c) ==
    /\ commands[c].pc = "config.all"
    /\ Resume(c, start_web_server(samlauth, commands[c], c))

\* await self.web_site.stop() is done, lines 302-303: the awaited site no
\* longer listens and the attribute is cleared; when the call raised,
\* stop_web_server ends there
SiteStop(c) ==
    /\ commands[c].pc = "web_site.stop"
    /\ \E went_through \in site_stop_outcomes(samlauth, commands[c].awaited) :
          LET cmd == commands[c]
              sa == [samlauth EXCEPT !.listening = @ \ {cmd.awaited},
                                     !.web_site = NoSite]
          IN  Resume(c, IF went_through
                        THEN stop_web_runner(sa, [cmd EXCEPT !.awaited = 0], c)
                        ELSE returned(samlauth))

\* await self.web_runner.cleanup() has started, line 306: the awaited
\* runner awaits the stop of each site registered with it, and is done when
\* it has none
RunnerCleanup(c) ==
    /\ commands[c].pc = "web_runner.cleanup"
    /\ LET cmd == commands[c]
           sites == {s \in samlauth.listening : samlauth.site_runner[s] = cmd.awaited}
       IN  Resume(c, IF sites # {}
                     THEN [sa |-> samlauth,
                           cmd |-> [cmd EXCEPT !.pc = "web_runner.cleanup: site.stop",
                                               !.sites = sites]]
                     ELSE after_stop_web_server(
                              runner_cleaned_up(samlauth, cmd.awaited),
                              [cmd EXCEPT !.awaited = 0], c))

\* a site of the runner is stopped; after the last one cleanup() is done,
\* lines 306-307; when the stop raised, stop_web_server ends there
RunnerCleanupSiteStop(c) ==
    /\ commands[c].pc = "web_runner.cleanup: site.stop"
    /\ \E site \in commands[c].sites :
       \E went_through \in site_stop_outcomes(samlauth, site) :
          LET cmd == commands[c]
              sa == [samlauth EXCEPT !.listening = @ \ {site}]
          IN  Resume(c, IF ~went_through
                        THEN returned(samlauth)
                        ELSE IF cmd.sites # {site}
                             THEN [sa |-> sa, cmd |-> [cmd EXCEPT !.sites = @ \ {site}]]
                             ELSE after_stop_web_server(
                                      runner_cleaned_up(sa, cmd.awaited),
                                      [cmd EXCEPT !.awaited = 0, !.sites = {}], c))

\* TCPSite(self.web_runner, '0.0.0.0', port), line 294, on the runner the
\* attribute holds then: None raises AttributeError; a runner that is not
\* set up takes the site (TRUE) or raises (FALSE)
site_made_outcomes(sa) ==
    IF sa.web_runner = NoRunner
    THEN {FALSE}
    ELSE IF sa.web_runner \in sa.runner_setup THEN {TRUE} ELSE {TRUE, FALSE}

\* await self.web_runner.setup() is done, lines 291-295: the site is made
\* for the port of the guild_config that was read, and start() is awaited
RunnerSetup(c) ==
    /\ commands[c].pc = "web_runner.setup"
    /\ LET cmd == commands[c]
           set_up == [samlauth EXCEPT !.runner_setup = @ \cup {cmd.awaited}]
       IN  \E made \in site_made_outcomes(set_up) :
              Resume(c, IF made
                        THEN [sa |-> [set_up EXCEPT !.site_port[c] = cmd.local,
                                                    !.site_runner[c] = set_up.web_runner,
                                                    !.web_site = c],
                              cmd |-> [cmd EXCEPT !.pc = "web_site.start",
                                                  !.awaited = c]]
                        ELSE returned(set_up))

\* the start of a site: when another site listens on its port the call
\* raises OSError (FALSE); otherwise on a runner that is set up the site
\* listens (TRUE), and on another runner it listens or the call raises
site_start_outcomes(sa, site) ==
    IF \E other \in sa.listening \ {site} : sa.site_port[other] = sa.site_port[site]
    THEN {FALSE}
    ELSE IF sa.site_runner[site] \in sa.runner_setup THEN {TRUE} ELSE {TRUE, FALSE}

\* await self.web_site.start() is done, line 295
SiteStart(c) ==
    /\ commands[c].pc = "web_site.start"
    /\ \E started \in site_start_outcomes(samlauth, commands[c].awaited) :
          Resume(c, returned(IF started
                             THEN [samlauth EXCEPT !.listening = @ \cup {commands[c].awaited}]
                             ELSE samlauth))

\* [p]samlauth port in guild g, up to await ...web_port.set(port)
Port(g, port) ==
    /\ ~samlauth.unloaded
    /\ CanStart(samlauth, commands)
    /\ commands' = given(samlauth, commands, "port", g, <<port>>, "web_port.set")
    /\ samlauth' = [samlauth EXCEPT !.serial = @ /\ InFlight(commands) = {}]
    /\ UNCHANGED <<guild_roles, guild_config, db_pool, saml_users, member_roles, runs>>

\* web_port.set(port) is done, line 336: the port is stored and the command
\* answers
WebPortSet(c) ==
    /\ commands[c].pc = "web_port.set"
    /\ Resume(c, returned([samlauth EXCEPT
                              !.web_port[commands[c].guild] = commands[c].args[1]]))

\* self.cleanup_task.cancel(): the task of _start_cleanup_task ends at the
\* await it is suspended at
cancelled(cmds) ==
    [c \in CommandIds |->
        IF cmds[c].name = "_start_cleanup_task" THEN NoCommand ELSE cmds[c]]

\* the tasks that cog_unload creates: one of stop_web_server with a runner
\* set, one of db_pool.close() with a pool set
unload_tasks(sa, cmds) ==
    LET stopping == IF sa.web_runner # NoRunner
                    THEN given(sa, cmds, "cog_unload", NoGuild, <<>>, "task: stop_web_server")
                    ELSE cmds
    IN  IF sa.db_pool # NoPool
        THEN given(sa, stopping, "cog_unload", NoGuild, <<>>, "task: db_pool.close")
        ELSE stopping

\* SAMLAuth.cog_unload: the cleanup task is cancelled and the tasks are
\* created; they run later
SamlAuthCogUnload ==
    /\ ~samlauth.unloaded
    /\ Cardinality(CommandIds \ InUse(samlauth, cancelled(commands)))
           >= Cardinality({t \in {"runner", "pool"} :
                  \/ t = "runner" /\ samlauth.web_runner # NoRunner
                  \/ t = "pool" /\ samlauth.db_pool # NoPool})
    /\ samlauth' = [samlauth EXCEPT !.unloaded = TRUE, !.serial = FALSE]
    /\ commands' = unload_tasks(samlauth, cancelled(commands))
    /\ UNCHANGED <<guild_roles, guild_config, db_pool, saml_users, member_roles, runs>>

\* the task that cog_unload created begins stop_web_server
StopWebServerTask(c) ==
    /\ commands[c].pc = "task: stop_web_server"
    /\ Resume(c, stop_web_server(samlauth, commands[c], c))

\* the task that cog_unload created closes the pool; the attribute keeps
\* the closed pool unless _setup_database has reset it
PoolCloseTask(c) ==
    /\ commands[c].pc = "task: db_pool.close"
    /\ Resume(c, returned([samlauth EXCEPT !.db_pool =
                              IF @ = OpenPool THEN ClosedPool ELSE @]))

(***************************************************************************)
(* SpecWeb: the commands enable, disable and port in any guild, their      *)
(* coroutines resumed in any order, and cog_unload.                        *)
(***************************************************************************)
InitWeb ==
    /\ guild_roles = RoleIds
    /\ guild_config = DefaultConfig(dependencies_of({}))
    /\ db_pool = NoPool
    /\ saml_users = NoTable
    /\ samlauth = SamlAuthInit
    /\ commands = NoCommands
    /\ member_roles = {}
    /\ runs = [r \in Runs |-> IdleRun]

NextWeb ==
    \/ \E g \in Guilds : Enable(g)
    \/ \E g \in Guilds : Disable(g)
    \/ \E command \in Guilds \X Ports : Port(command[1], command[2])
    \/ \E c \in CommandIds : WebPortSet(c)
    \/ \E c \in CommandIds : EnabledSet(c)
    \/ \E c \in CommandIds : GuildConfigAll(c)
    \/ \E c \in CommandIds : SiteStop(c)
    \/ \E c \in CommandIds : RunnerCleanup(c)
    \/ \E c \in CommandIds : RunnerCleanupSiteStop(c)
    \/ \E c \in CommandIds : RunnerSetup(c)
    \/ \E c \in CommandIds : SiteStart(c)
    \/ SamlAuthCogUnload
    \/ \E c \in CommandIds : StopWebServerTask(c)

SpecWeb == InitWeb /\ [][NextWeb]_vars

(***************************************************************************)
(* SAMLAuth: the table saml_users, _setup_database, _store_user_data and   *)
(* the commands link, unlink and cleanup.  A table that does not exist has *)
(* no columns.                                                             *)
(***************************************************************************)
AbsentTable == [columns |-> {}, row |-> NoRow]

\* CREATE TABLE IF NOT EXISTS saml_users (...)
create_table_if_not_exists(table) ==
    IF table.columns = {}
    THEN [columns |-> SamlAuthColumns, row |-> NoRow]
    ELSE table

\* the columns the INSERT of _store_user_data names
InsertedColumns ==
    {"discord_user_id", "attributes", "verification_date", "reminder_date",
     "expiration_date", "updated_at"}

\* the columns the three CREATE INDEX statements name
IndexedColumns == {"discord_user_id", "expiration_date", "reminder_date"}

\* the INSERT ... ON CONFLICT of _store_user_data on the acquired
\* connection: the table after it; nothing is stored when the statement
\* fails
store_user_data(table, attributes) ==
    IF ~(InsertedColumns \subseteq table.columns)
    THEN table
    ELSE [table EXCEPT !.row = [present |-> TRUE,
                                attributes |-> json_dumps(attributes)]]

\* SAMLAuth._setup_database, lines 59-62: create_pool returned, the pool is
\* set and a connection is acquired from it; the coroutine awaits the
\* CREATE TABLE
SamlAuthSetupDatabase ==
    /\ samlauth.setup = "create_pool"
    /\ samlauth' = [samlauth EXCEPT !.db_pool = OpenPool, !.setup = "create table"]
    /\ UNCHANGED <<commands, guild_roles, guild_config, db_pool, saml_users,
                   member_roles, runs>>

\* lines 63-74: the table is created on the acquired connection, whatever
\* has become of the pool since
SamlAuthCreateTable ==
    /\ samlauth.setup = "create table"
    /\ samlauth' = [samlauth EXCEPT !.setup = "create index"]
    /\ saml_users' = create_table_if_not_exists(saml_users)
    /\ UNCHANGED <<commands, guild_roles, guild_config, db_pool, member_roles, runs>>

\* lines 76-90: the three indexes are created; on a table without one of
\* their columns the statement raises, and the except clause resets the pool
SamlAuthCreateIndexes ==
    /\ samlauth.setup = "create index"
    /\ samlauth' = [samlauth EXCEPT
           !.db_pool = IF IndexedColumns \subseteq saml_users.columns THEN @ ELSE NoPool,
           !.setup = "done"]
    /\ UNCHANGED <<commands, guild_roles, guild_config, db_pool, saml_users,
                   member_roles, runs>>

\* a command or the task tests the pool and acquires a connection: with
\* one acquired its coroutine awaits the statement, otherwise it ends
statement_given(sa, cmds, name, args, statement) ==
    IF acquires(sa.db_pool)
    THEN given(sa, cmds, name, NoGuild, args, statement)
    ELSE cmds

\* the coroutine c of the given name awaits the given statement
AwaitsStatement(c, name, statement) ==
    commands[c].pc = statement /\ commands[c].name = name

\* the statement of coroutine c is done and leaves the given table; the
\* coroutine ends
StatementDone(c, table) ==
    /\ saml_users' = table
    /\ commands' = [commands EXCEPT ![c] = NoCommand]
    /\ samlauth' = collected(samlauth, [commands EXCEPT ![c] = NoCommand])
    /\ UNCHANGED <<guild_roles, guild_config, db_pool, member_roles, runs>>

\* [p]samlauth link member oid_values..., up to the await of the INSERT:
\* the command answers without storing when no value is given
Link(values) ==
    /\ ~samlauth.unloaded
    /\ CanStart(samlauth, commands)
    /\ commands' = IF values = <<>>
                   THEN commands
                   ELSE statement_given(samlauth, commands, "link", values, "INSERT")
    /\ UNCHANGED <<guild_roles, guild_config, db_pool, saml_users, member_roles, runs,
                   samlauth>>

\* the INSERT of link is done
LinkInsert(c) ==
    /\ AwaitsStatement(c, "link", "INSERT")
    /\ StatementDone(c, store_user_data(saml_users,
                         (OidKey :> [list |-> TRUE, v |-> commands[c].args])))

\* DELETE FROM saml_users WHERE ... on the acquired connection: the table
\* after it, when the WHERE clause names the given column and selects the
\* member's row or not; nothing is deleted when the statement fails
delete_row(table, column, selected) ==
    IF column \notin table.columns \/ ~selected
    THEN table
    ELSE [table EXCEPT !.row = NoRow]

\* [p]samlauth unlink member, up to the await of the DELETE
Unlink ==
    /\ ~samlauth.unloaded
    /\ CanStart(samlauth, commands)
    /\ commands' = statement_given(samlauth, commands, "unlink", <<>>, "DELETE")
    /\ UNCHANGED <<guild_roles, guild_config, db_pool, saml_users, member_roles, runs,
                   samlauth>>

\* the DELETE of unlink is done
UnlinkDelete(c) ==
    /\ AwaitsStatement(c, "unlink", "DELETE")
    /\ StatementDone(c, delete_row(saml_users, "discord_user_id", TRUE))

\* [p]samlauth cleanup, up to the await of the DELETE
Cleanup ==
    /\ ~samlauth.unloaded
    /\ CanStart(samlauth, commands)
    /\ commands' = statement_given(samlauth, commands, "cleanup", <<>>, "DELETE")
    /\ UNCHANGED <<guild_roles, guild_config, db_pool, saml_users, member_roles, runs,
                   samlauth>>

\* the DELETE of cleanup is done: the member's row is deleted when its
\* expiration_date has passed
CleanupDelete(c, expired) ==
    /\ AwaitsStatement(c, "cleanup", "DELETE")
    /\ StatementDone(c, delete_row(saml_users, "expiration_date", expired))

\* _start_cleanup_task, the task that __init__ created and cog_unload
\* cancels: its sleep is over, up to the await of the DELETE
CleanupTask ==
    /\ ~samlauth.unloaded
    /\ \A c \in CommandIds : commands[c].name # "_start_cleanup_task"
    /\ CanStart(samlauth, commands)
    /\ commands' = statement_given(samlauth, commands, "_start_cleanup_task", <<>>, "DELETE")
    /\ UNCHANGED <<guild_roles, guild_config, db_pool, saml_users, member_roles, runs,
                   samlauth>>

\* the DELETE of the task is done, and the task sleeps again
CleanupTaskDelete(c, expired) ==
    /\ AwaitsStatement(c, "_start_cleanup_task", "DELETE")
    /\ StatementDone(c, delete_row(saml_users, "expiration_date", expired))

(***************************************************************************)
(* SpecStore: the two cogs start in any order on a database in which the   *)
(* table does not exist yet, exists with a saml_nameid column, or exists   *)
(* with the columns of an older version; the member is linked and          *)
(* unlinked, expired rows are cleaned up, sync_user_roles is called, up to *)
(* role selection, and the cogs are unloaded.                              *)
(***************************************************************************)
LinkWords == {"student"}

StoreConfig ==
    [role_mappings |-> SyncMappings, role_dependencies |-> dependencies_of({}),
     student_role_id |-> 1, faculty_staff_role_id |-> 2, alum_role_id |-> 3]

StoreTables ==
    {AbsentTable,
     [columns |-> SamlAuthColumns \cup {"saml_nameid"}, row |-> NoRow],
     [columns |-> {"id", "discord_user_id", "attributes"}, row |-> NoRow]}

InitStore ==
    /\ guild_roles = SyncRoleIds
    /\ guild_config = StoreConfig
    /\ db_pool = NoPool
    /\ saml_users \in StoreTables
    /\ samlauth = SamlAuthInit
    /\ commands = NoCommands
    /\ member_roles = {}
    /\ runs = [r \in Runs |-> IdleRun]

NextStore ==
    \/ SamlAuthSetupDatabase
    \/ SamlAuthCreateTable
    \/ SamlAuthCreateIndexes
    \/ \E values \in ListsUpTo(LinkWords, MaxValues) : Link(values)
    \/ \E c \in CommandIds : LinkInsert(c)
    \/ Unlink
    \/ \E c \in CommandIds : UnlinkDelete(c)
    \/ Cleanup
    \/ \E c \in CommandIds : \E expired \in BOOLEAN : CleanupDelete(c, expired)
    \/ CleanupTask
    \/ \E c \in CommandIds : \E expired \in BOOLEAN : CleanupTaskDelete(c, expired)
    \/ SamlAuthCogUnload
    \/ \E c \in CommandIds : PoolCloseTask(c)
    \/ SetupDatabase
    \/ CogUnload
    \/ \E r \in Runs : Fetch(r)
    \/ \E r \in Runs : FetchRow(r)
    \/ \E r \in Runs : Select(r)

SpecStore == InitStore /\ [][NextStore]_vars

(***************************************************************************)
(* Properties of _check_role_dependencies, under SpecResolve.              *)
(***************************************************************************)
\* the run's last step was _check_role_dependencies: roles_to_add and
\* roles_to_remove are its result on member_roles and target_roles_set
JustChecked(r) ==
    /\ runs[r].steps # <<>>
    /\ runs[r].steps[Len(runs[r].steps)] = "check"

\* graph[role]: the existing roles the configuration says role requires
RequiredOf(role) ==
    {q \in guild_roles :
        /\ str(role) \in DOMAIN guild_config.role_dependencies
        /\ str(q) \in guild_config.role_dependencies[str(role)]}

\* C1: every role of the returned add-set has all of its required roles in
\* current \cup add-set.
DependencySafety ==
    \A r \in Runs :
        JustChecked(r) =>
            \A role \in runs[r].roles_to_add :
                RequiredOf(role) \subseteq member_roles \cup runs[r].roles_to_add

\* C4: a held, undesired role that requires a held, undesired role is in the
\* returned remove-set.
CascadeCorrectness ==
    \A r \in Runs :
        JustChecked(r) =>
            \A p \in member_roles \ runs[r].target_roles_set :
                \A d \in member_roles \ runs[r].target_roles_set :
                    p \in RequiredOf(d) => d \in runs[r].roles_to_remove

\* C4 happens: role d requires another role p, both are held and undesired,
\* and d is to be removed
CascadeWitness ==
    \E r \in Runs :
        /\ JustChecked(r)
        /\ \E p \in member_roles \ runs[r].target_roles_set :
              \E d \in member_roles \ runs[r].target_roles_set :
                  /\ p # d
                  /\ p \in RequiredOf(d)
                  /\ d \in runs[r].roles_to_remove
                  /\ p \notin runs[r].roles_to_remove

\* C5: the returned add-set and remove-set share no role, whatever the graph.
Disjointness ==
    \A r \in Runs :
        JustChecked(r) => runs[r].roles_to_add \cap runs[r].roles_to_remove = {}

\* C5 happens: both sets are non-empty on a graph with a cycle through a role
\* that is to be added
DisjointnessWitness ==
    \E r \in Runs :
        /\ JustChecked(r)
        /\ runs[r].roles_to_add # {}
        /\ runs[r].roles_to_remove # {}
        /\ \E a \in runs[r].roles_to_add :
              \E b \in guild_roles : b \in RequiredOf(a) /\ a \in RequiredOf(b)

\* C10: the returned add-set contains no role the member already holds.
MinimalAddSet ==
    \A r \in Runs :
        JustChecked(r) => runs[r].roles_to_add \cap member_roles = {}

\* C15: with an empty dependency graph the add-set is the desired set and
\* the remove-set is empty, whatever the member holds.
EmptyGraphPassThrough ==
    \A r \in Runs :
        (JustChecked(r) /\ DOMAIN guild_config.role_dependencies = {})
        => /\ runs[r].roles_to_add = runs[r].target_roles_set
           /\ runs[r].roles_to_remove = {}

\* C15 happens: the graph is empty, the member holds one of the desired roles
\* and lacks another, holds an undesired role, and the add-set is the desired set
EmptyGraphWitness ==
    \E r \in Runs :
        /\ JustChecked(r)
        /\ DOMAIN guild_config.role_dependencies = {}
        /\ runs[r].target_roles_set \cap member_roles # {}
        /\ runs[r].target_roles_set \ member_roles # {}
        /\ member_roles \ runs[r].target_roles_set # {}
        /\ runs[r].roles_to_add = runs[r].target_roles_set

\* the roles of pool whose existing required roles are all held or in pool
Satisfiable(pool) == {role \in pool : RequiredOf(role) \subseteq member_roles \cup pool}

\* C17: the add-set is the desired set filtered twice: once against
\* current \cup desired, and the result once against current \cup itself.
TwoPassAddSet ==
    \A r \in Runs :
        JustChecked(r) =>
            runs[r].roles_to_add = Satisfiable(Satisfiable(runs[r].target_roles_set))

\* C17 happens: the second pass dropped a role, and a third pass would drop
\* another one: the add-set is not a fixed point of the filter
TwoPassWitness ==
    \E r \in Runs :
        /\ JustChecked(r)
        /\ runs[r].roles_to_add # Satisfiable(runs[r].target_roles_set)
        /\ Satisfiable(runs[r].roles_to_add) # runs[r].roles_to_add

\* C18: the remove-set is the set of held, undesired roles that directly
\* require a held, undesired role.
SinglePassRemoveSet ==
    \A r \in Runs :
        JustChecked(r) =>
            runs[r].roles_to_remove =
                {d \in member_roles \ runs[r].target_roles_set :
                    \E p \in member_roles \ runs[r].target_roles_set : p \in RequiredOf(d)}

\* C18 happens: a held, undesired role d requires a role x the member does
\* not hold, x requires a held, undesired role p, and neither d nor p is removed
SinglePassWitness ==
    \E r \in Runs :
        /\ JustChecked(r)
        /\ \E d \in member_roles \ runs[r].target_roles_set :
              \E x \in RequiredOf(d) \ member_roles :
                  \E p \in RequiredOf(x) \cap (member_roles \ runs[r].target_roles_set) :
                      /\ d \notin runs[r].roles_to_remove
                      /\ p \notin runs[r].roles_to_remove

\* C20: a desired role whose required ids are each the id of no role or the
\* id of a held role is in the add-set, and every role of the remove-set exists.
UnresolvableSkipped ==
    \A r \in Runs :
        JustChecked(r) =>
            /\ \A role \in runs[r].target_roles_set :
                  (/\ str(role) \in DOMAIN guild_config.role_dependencies
                   /\ \A rid \in guild_config.role_dependencies[str(role)] :
                         int(rid) \in guild_roles => int(rid) \in member_roles)
                  => role \in runs[r].roles_to_add
            /\ runs[r].roles_to_remove \subseteq guild_roles

\* C20 happens: a desired role requires only the id of a deleted role and is
\* in the add-set, while an entry of the deleted role requires a held,
\* undesired role and nothing is removed
UnresolvableWitness ==
    \E r \in Runs :
        /\ JustChecked(r)
        /\ \E role \in runs[r].roles_to_add :
              /\ str(role) \in DOMAIN guild_config.role_dependencies
              /\ \A rid \in guild_config.role_dependencies[str(role)] :
                    int(rid) \notin guild_roles
        /\ \E dep_role_id \in DOMAIN guild_config.role_dependencies :
              /\ int(dep_role_id) \notin guild_roles
              /\ \E p \in member_roles \ runs[r].target_roles_set :
                    str(p) \in guild_config.role_dependencies[dep_role_id]
        /\ runs[r].roles_to_remove = {}

(***************************************************************************)
(* Properties of _get_roles_for_user, under SpecSelect.                    *)
(***************************************************************************)
\* the run's only step was _get_roles_for_user: target_roles is its result
\* on the run's user_data
Selected(r) == runs[r].steps = <<"select">>

\* the classification values of a record, lower-cased
ClassificationValues(attributes) ==
    IF OidKey \in DOMAIN attributes
    THEN {lower(w) : w \in ToSet(attributes[OidKey].v)}
    ELSE {}

\* the priority slots, highest first: the trigger values and the configured role id
Slots ==
    << [triggers |-> {"student"}, role_id |-> guild_config.student_role_id],
       [triggers |-> {"faculty", "staff", "employee"}, role_id |-> guild_config.faculty_staff_role_id],
       [triggers |-> {"alum"}, role_id |-> guild_config.alum_role_id] >>

MatchingSlots(attributes) ==
    {i \in 1..Len(Slots) : Slots[i].triggers \cap ClassificationValues(attributes) # {}}

HighestMatchingSlot(attributes) ==
    CHOOSE i \in MatchingSlots(attributes) : \A j \in MatchingSlots(attributes) : i <= j

PriorityTierRoles == {Slots[i].role_id : i \in 1..Len(Slots)} \ {NoRole}

\* the role ids the mapping table gives for the values of the record
MappedRoleIds(attributes) ==
    UNION {{guild_config.role_mappings[i].map[w] :
                w \in ToSet(attributes[guild_config.role_mappings[i].key].v)
                      \cap DOMAIN guild_config.role_mappings[i].map} :
            i \in {j \in 1..Len(guild_config.role_mappings) :
                      guild_config.role_mappings[j].key \in DOMAIN attributes}}

\* C3 as stated: for a record matching two or more priority triggers, and for
\* any mapping table, the desired set contains exactly the role of the
\* highest-priority matching slot (here: when that slot is configured with an
\* existing role) and no other priority-tier role.
ExclusivityAnyMapping ==
    \A r \in Runs :
        LET attributes == runs[r].user_data.attributes
        IN  (/\ Selected(r)
             /\ Cardinality(MatchingSlots(attributes)) >= 2
             /\ Slots[HighestMatchingSlot(attributes)].role_id \in guild_roles)
            => ToSet(runs[r].target_roles) \cap PriorityTierRoles
                   = {Slots[HighestMatchingSlot(attributes)].role_id}

\* C3 amended: for a record matching two or more priority triggers, the
\* desired set contains the role of the highest-priority matching slot when
\* that slot is configured with an existing role, and every other
\* priority-tier role in it is a role the mapping table gives for one of the
\* record's values.
ExclusivityOfPrioritySlots ==
    \A r \in Runs :
        LET attributes == runs[r].user_data.attributes
            highest == Slots[HighestMatchingSlot(attributes)].role_id
        IN  (Selected(r) /\ Cardinality(MatchingSlots(attributes)) >= 2)
            => /\ (ToSet(runs[r].target_roles) \cap PriorityTierRoles)
                      \ MappedRoleIds(attributes) \subseteq {highest}
               /\ highest \in guild_roles => highest \in ToSet(runs[r].target_roles)

\* C3 happens: a record matches the student and the alum trigger, the three
\* slots have existing roles, and only the student role is selected
ExclusivityWitness ==
    \E r \in Runs :
        /\ Selected(r)
        /\ MatchingSlots(runs[r].user_data.attributes) = {1, 3}
        /\ Cardinality(PriorityTierRoles \cap guild_roles) = 3
        /\ runs[r].target_roles = <<guild_config.student_role_id>>

\* the existing role the priority slots give for a record: that of the
\* highest matching slot
PrioritySlotRoles(attributes) ==
    IF MatchingSlots(attributes) = {}
    THEN {}
    ELSE {Slots[HighestMatchingSlot(attributes)].role_id} \cap guild_roles

\* the record with the classification attribute's values in lower case
LowerCased(attributes) ==
    [k \in DOMAIN attributes |->
        IF k = OidKey
        THEN [list |-> attributes[k].list,
              v |-> [i \in 1..Len(attributes[k].v) |-> lower(attributes[k].v[i])]]
        ELSE attributes[k]]

\* C11: with an empty mapping table, a record and the record with its
\* classification values lower-cased get the same desired roles: the role of
\* the highest slot that matches the lower-cased values.
CaseInsensitiveTriggers ==
    \A r \in Runs :
        (Selected(r) /\ guild_config.role_mappings = <<>>)
        => /\ runs[r].target_roles =
                 get_roles_for_user(guild_roles, guild_config,
                     [found |-> TRUE,
                      attributes |-> LowerCased(runs[r].user_data.attributes)])
           /\ ToSet(runs[r].target_roles) = PrioritySlotRoles(runs[r].user_data.attributes)

\* C11 happens: the record has the value "STUDENT" and the student role is selected
CaseInsensitiveWitness ==
    \E r \in Runs :
        /\ Selected(r)
        /\ guild_config.role_mappings = <<>>
        /\ OidKey \in DOMAIN runs[r].user_data.attributes
        /\ "STUDENT" \in ToSet(runs[r].user_data.attributes[OidKey].v)
        /\ guild_config.student_role_id \in guild_roles
        /\ runs[r].target_roles = <<guild_config.student_role_id>>

\* C12: a value of a mapped attribute whose lower-cased form is an
\* entry of the mapping contributes the entry's role, when the role exists.
MappingUsesNormalizedValues ==
    \A r \in Runs :
        Selected(r) =>
            \A i \in 1..Len(guild_config.role_mappings) :
                LET key == guild_config.role_mappings[i].key
                    map == guild_config.role_mappings[i].map
                    attributes == runs[r].user_data.attributes
                IN  key \in DOMAIN attributes =>
                        \A w \in ToSet(attributes[key].v) :
                            (lower(w) \in DOMAIN map /\ map[lower(w)] \in guild_roles)
                            => map[lower(w)] \in ToSet(runs[r].target_roles)

\* the configuration without its references to roles that do not exist: such
\* a slot is unset, such a mapping entry is deleted
WithoutDangling(config) ==
    [config EXCEPT
        !.student_role_id = IF @ \in guild_roles THEN @ ELSE NoRole,
        !.faculty_staff_role_id = IF @ \in guild_roles THEN @ ELSE NoRole,
        !.alum_role_id = IF @ \in guild_roles THEN @ ELSE NoRole,
        !.role_mappings =
            [i \in 1..Len(config.role_mappings) |->
                [key |-> config.role_mappings[i].key,
                 map |-> [w \in {x \in DOMAIN config.role_mappings[i].map :
                                    config.role_mappings[i].map[x] \in guild_roles}
                            |-> config.role_mappings[i].map[w]]]]]

\* C13: every desired role exists, and the desired roles are those of the
\* configuration without its references to roles that do not exist.
DanglingReferencesDropped ==
    \A r \in Runs :
        Selected(r) =>
            /\ ToSet(runs[r].target_roles) \subseteq guild_roles
            /\ runs[r].target_roles =
                   get_roles_for_user(guild_roles, WithoutDangling(guild_config),
                                      runs[r].user_data)

\* C13 happens: the student slot fires for the record, its role has been
\* deleted, and a role of the mapping table is selected
DanglingReferencesWitness ==
    \E r \in Runs :
        /\ Selected(r)
        /\ "student" \in ClassificationValues(runs[r].user_data.attributes)
        /\ guild_config.student_role_id # NoRole
        /\ guild_config.student_role_id \notin guild_roles
        /\ runs[r].target_roles # <<>>

\* C14: apart from the roles the mapping table gives, the desired roles are
\* the role of the highest matching slot, first in the list, or none when
\* that slot has no existing role or no slot matches.
FirstFiredSlotWins ==
    \A r \in Runs :
        LET attributes == runs[r].user_data.attributes
        IN  Selected(r) =>
                /\ ToSet(runs[r].target_roles) \ MappedRoleIds(attributes)
                       = PrioritySlotRoles(attributes) \ MappedRoleIds(attributes)
                /\ PrioritySlotRoles(attributes) # {}
                       => {Head(runs[r].target_roles)} = PrioritySlotRoles(attributes)

\* C14 happens: the record matches the student and the alum slot, no student
\* role is configured, the alum role exists, and no role is selected
FirstFiredSlotWitness ==
    \E r \in Runs :
        /\ Selected(r)
        /\ MatchingSlots(runs[r].user_data.attributes) = {1, 3}
        /\ guild_config.student_role_id = NoRole
        /\ guild_config.alum_role_id \in guild_roles
        /\ runs[r].target_roles = <<>>

\* the record with every scalar in a one-element list
AsLists(attributes) ==
    [k \in DOMAIN attributes |-> [list |-> TRUE, v |-> attributes[k].v]]

\* C16: a record and the record with every scalar in a one-element list get
\* the same desired roles, and a record without the classification attribute
\* gets the roles of the mapping table only.
ScalarsCoerced ==
    \A r \in Runs :
        LET attributes == runs[r].user_data.attributes
        IN  Selected(r) =>
                /\ runs[r].target_roles =
                       get_roles_for_user(guild_roles, guild_config,
                           [found |-> TRUE, attributes |-> AsLists(attributes)])
                /\ OidKey \notin DOMAIN attributes
                       => ToSet(runs[r].target_roles)
                              = MappedRoleIds(attributes) \cap guild_roles

\* C16 happens: the classification attribute and a mapped attribute are
\* scalars, and the role of a slot and a role of the mapping are selected
ScalarsCoercedWitness ==
    \E r \in Runs :
        LET attributes == runs[r].user_data.attributes
        IN  /\ Selected(r)
            /\ DOMAIN attributes = {OidKey, "groups"}
            /\ ~attributes[OidKey].list
            /\ ~attributes["groups"].list
            /\ Len(runs[r].target_roles) = 2
            /\ PrioritySlotRoles(attributes) # {}

(***************************************************************************)
(* Properties of sync_user_roles, under Spec.                              *)
(***************************************************************************)
Returned(r) == runs[r].pc = "done"

\* a platform call of the run raised discord.HTTPException
CallFailed(run) == \E i \in 1..Len(run.calls) : ~run.calls[i].ok

\* run b began after run a had returned, and no other run has begun
InSuccession(a, b) ==
    /\ a # b
    /\ a \in runs[b].seen_done
    /\ \A c \in Runs \ {a, b} : runs[c].pc = "idle"

\* C2: a run that follows a run whose mutations all succeeded, with the
\* same record and configuration, computes an empty add-set and an empty
\* remove-set and issues no role mutation.
Idempotence ==
    \A a \in Runs : \A b \in Runs :
        (InSuccession(a, b) /\ Returned(b) /\ runs[a].result)
        => /\ runs[b].roles_to_add = {}
           /\ runs[b].roles_to_remove = {}
           /\ runs[b].calls = <<>>

\* C6: a run that has roles to remove issues add_roles only after its
\* remove_roles call has returned; no run issues remove_roles after add_roles.
RemovalBeforeAddition ==
    \A r \in Runs :
        /\ \A i \in 1..Len(runs[r].calls) : \A j \in 1..Len(runs[r].calls) :
              (runs[r].calls[i].op = "add_roles" /\ runs[r].calls[j].op = "remove_roles")
              => j < i
        /\ (runs[r].roles_to_remove # {}
            /\ (runs[r].pc = "add_roles"
                \/ \E i \in 1..Len(runs[r].calls) : runs[r].calls[i].op = "add_roles"))
           => /\ Len(runs[r].calls) >= 1
              /\ runs[r].calls[1].op = "remove_roles"
              /\ runs[r].calls[1].ok

\* C6 happens: a run has issued both calls
RemovalBeforeAdditionWitness ==
    \E r \in Runs :
        /\ Len(runs[r].calls) = 2
        /\ runs[r].calls[1].op = "remove_roles"
        /\ runs[r].calls[2].op = "add_roles"
        /\ runs[r].calls[2].ok

\* C7: the step in which a platform call fails ends the run with False and
\* rolls nothing back: the member keeps every role held before the step
\* except roles of a failed removal, and is given no role except roles of a
\* failed addition; a run with a failed call takes no further step.
NoRollback ==
    [][\A r \in Runs :
          /\ (Len(runs'[r].calls) = Len(runs[r].calls) + 1
              /\ ~runs'[r].calls[Len(runs'[r].calls)].ok)
             => LET call == runs'[r].calls[Len(runs'[r].calls)]
                IN  /\ runs'[r].pc = "done"
                    /\ ~runs'[r].result
                    /\ member_roles \ member_roles' \subseteq
                           (IF call.op = "remove_roles" THEN call.roles ELSE {})
                    /\ member_roles' \ member_roles \subseteq
                           (IF call.op = "add_roles" THEN call.roles ELSE {})
          /\ CallFailed(runs[r]) => runs'[r] = runs[r]]_vars

\* C7 happens: a run's removal succeeded, its addition failed, the run
\* returned False and the removed roles are still removed
NoRollbackWitness ==
    \E r \in Runs :
        /\ Returned(r)
        /\ ~runs[r].result
        /\ Len(runs[r].calls) = 2
        /\ runs[r].calls[1].op = "remove_roles" /\ runs[r].calls[1].ok
        /\ runs[r].calls[2].op = "add_roles" /\ ~runs[r].calls[2].ok
        /\ runs[r].calls[1].roles \cap member_roles = {}

\* the query finds no record for the member: it fails, or the table has no
\* row for the member
NoRecordFound ==
    \/ ~(SelectedColumns \subseteq saml_users.columns)
    \/ ~saml_users.row.present

\* C8: a run that begins when no connection can be acquired, and a run
\* whose query finds no record, returns False in that step, having computed
\* no role set and issued no call, and the member's roles are unchanged.
MissingIdentityAbsorbed ==
    [][\A r \in Runs :
          (\/ runs[r].pc = "idle" /\ runs'[r].pc # "idle" /\ ~acquires(db_pool)
           \/ runs[r].pc = "fetchrow" /\ runs'[r].pc # "fetchrow" /\ NoRecordFound)
          => /\ runs'[r] = [IdleRun EXCEPT !.pc = "done", !.steps = runs'[r].steps,
                                           !.seen_done = runs'[r].seen_done]
             /\ runs'[r].steps \in {<<"fetch">>, <<"fetch", "fetchrow">>}
             /\ ~runs'[r].result
             /\ runs'[r].calls = <<>>
             /\ member_roles' = member_roles]_vars

\* C8 happens: a connection was acquired, the table can be queried, it has
\* no row for the member, and the run has returned
MissingIdentityWitness ==
    \E r \in Runs :
        /\ Returned(r)
        /\ runs[r].steps = <<"fetch", "fetchrow">>
        /\ SelectedColumns \subseteq saml_users.columns
        /\ ~saml_users.row.present

\* the outcome of the specification that a returned run stands for
Outcome(run) ==
    IF ~run.user_data.found THEN "NoIdentityData"
    ELSE IF CallFailed(run) THEN "ApplyFailed"
    ELSE IF run.roles_to_add = {} /\ run.roles_to_remove = {} THEN "NoChange"
    ELSE "Applied"

\* C9: the value returned for ApplyFailed differs from the one
\* for NoIdentityData, and the value for NoChange from the one for Applied.
TypedOutcomes ==
    \A a \in Runs : \A b \in Runs :
        (Returned(a) /\ Returned(b))
        => /\ (Outcome(runs[a]) = "ApplyFailed" /\ Outcome(runs[b]) = "NoIdentityData")
              => runs[a].result # runs[b].result
           /\ (Outcome(runs[a]) = "NoChange" /\ Outcome(runs[b]) = "Applied")
              => runs[a].result # runs[b].result

\* C19: when a run has returned True and no other run has begun, every role
\* of its add-set has its required roles among the member's roles.
PostApplyClosure ==
    \A r \in Runs :
        (/\ Returned(r)
         /\ runs[r].result
         /\ \A c \in Runs \ {r} : runs[c].pc = "idle")
        => \A role \in runs[r].roles_to_add : RequiredOf(role) \subseteq member_roles

(***************************************************************************)
(* Properties of the SAMLAuth web server, under SpecWeb.                   *)
(***************************************************************************)
\* C27: after enable and disable commands that each ran to completion,
\* whenever some guild is enabled the web server is running (web_runner and
\* web_site are set), and at most one site is listening.
EnabledImpliesServing ==
    (samlauth.serial /\ InFlight(commands) = {})
    => /\ (\E g \in Guilds : samlauth.enabled[g])
              => (samlauth.web_runner # NoRunner /\ samlauth.web_site # NoSite)
       /\ Cardinality(samlauth.listening) <= 1

(***************************************************************************)
(* Properties of the dependency commands, under SpecDependency.            *)
(***************************************************************************)
\* the roles that the roles of S require, directly or through at most k
\* further requirements
RECURSIVE RequiredWithin(_, _)
RequiredWithin(S, k) ==
    LET direct == UNION {RequiredOf(role) : role \in S}
    IN  IF k = 0 THEN direct ELSE direct \cup RequiredWithin(direct, k - 1)

\* C22: the stored role_dependencies has no cycle: no role requires itself,
\* directly or transitively.
StoredGraphAcyclic ==
    \A role \in guild_roles :
        role \notin RequiredWithin({role}, Cardinality(guild_roles))

(***************************************************************************)
(* Properties of the store and the lookup, under SpecStore.                *)
(***************************************************************************)
\* C24: a call of sync_user_roles that has acquired a connection and whose
\* query runs when the table that SAMLAuth created holds a record for the
\* member gets that record's attributes and goes on to role selection.
StoreLookupRoundTrip ==
    [][\A r \in Runs :
          (/\ runs[r].pc = "fetchrow" /\ runs'[r].pc # "fetchrow"
           /\ saml_users.columns = SamlAuthColumns
           /\ saml_users.row.present)
          => /\ runs'[r].pc = "select"
             /\ runs'[r].user_data.found
             /\ runs'[r].user_data.attributes = row_attributes(saml_users.row.attributes)]_vars

(***************************************************************************)
(* Properties of concurrent and repeated calls of sync_user_roles, under   *)
(* Spec.                                                                   *)
(***************************************************************************)
\* the run has begun and has not returned
InProgress(r) == runs[r].pc \notin {"idle", "done"}

\* C23: no two calls of sync_user_roles for the member are in progress at
\* the same time.
PerMemberSerialization ==
    \A a \in Runs : \A b \in Runs : (InProgress(a) /\ InProgress(b)) => a = b

\* the run has computed its add-set and its remove-set
HasChecked(r) == \E i \in 1..Len(runs[r].steps) : runs[r].steps[i] = "check"

\* C25: a run that follows a run whose mutations all succeeded computes an
\* empty remove-set and an add-set of roles the member holds, and returns
\* with the member's roles as it read them.
MembershipFixedPoint ==
    \A a \in Runs : \A b \in Runs :
        (InSuccession(a, b) /\ runs[a].result /\ HasChecked(b))
        => /\ runs[b].roles_to_remove = {}
           /\ runs[b].roles_to_add \subseteq runs[b].current_roles
           /\ Returned(b) => member_roles = runs[b].current_roles

\* C25 happens: the first run removed a role and added a role, the second
\* run issued add_roles for a role the member held, and nothing changed
MembershipFixedPointWitness ==
    \E a \in Runs : \E b \in Runs :
        /\ InSuccession(a, b)
        /\ runs[a].result
        /\ Len(runs[a].calls) = 2
        /\ Returned(b)
        /\ runs[b].result
        /\ runs[b].roles_to_add # {}
        /\ member_roles = runs[b].current_roles

\* every run that has begun has returned True
AllReturnedTrue == \A r \in Runs : runs[r].pc = "idle" \/ (Returned(r) /\ runs[r].result)

\* the member's roles after the run alone: what it read, less its
\* remove-set, with its add-set
AloneResult(run) == (run.current_roles \ run.roles_to_remove) \cup run.roles_to_add

\* C26: when two or more runs, however interleaved, have all returned True,
\* the member's roles are those a run that read the initial roles would have
\* left alone.
InterleavingInsensitive ==
    \A a \in Runs :
        (/\ AllReturnedTrue
         /\ Cardinality({r \in Runs : Returned(r)}) >= 2
         /\ runs[a].read_first)
        => member_roles = AloneResult(runs[a])

\* C26 happens: two runs were in progress together, the second read the
\* member's roles after the first had removed roles and before it added
\* roles, both made calls and returned True
InterleavingWitness ==
    \E a \in Runs : \E b \in Runs :
        /\ AllReturnedTrue
        /\ Returned(a) /\ Returned(b)
        /\ runs[a].read_first
        /\ Len(runs[a].calls) = 2
        /\ runs[b].calls # <<>>
        /\ runs[b].current_roles = runs[a].current_roles \ runs[a].roles_to_remove
        /\ runs[a].roles_to_remove # {}
        /\ member_roles = AloneResult(runs[a])

(***************************************************************************)
(* Properties of the loops of _check_role_dependencies, under SpecLoops.   *)
(***************************************************************************)
\* C21: on every graph, with or without cycles, a call of
\* _check_role_dependencies that has begun reaches its return statement.
ResolverTerminates ==
    \A r \in Runs : (runs[r].pc \in {"check"} \cup LoopPcs) ~> (runs[r].pc = "resolved")

\* C21 happens: the function has returned on a graph in which role 1
\* requires itself and the roles 1 and 2 require each other, with the sets
\* that the three loops compute, which are not empty
ResolverTerminatesWitness ==
    \E r \in Runs :
        /\ runs[r].pc = "resolved"
        /\ {1, 2} \subseteq RequiredOf(1)
        /\ 1 \in RequiredOf(2)
        /\ runs[r].final_roles_to_add # {}
        /\ runs[r].roles_to_remove # {}
        /\ <<runs[r].final_roles_to_add, runs[r].roles_to_remove>> =
               check_role_dependencies(guild_roles, guild_config.role_dependencies,
                                       runs[r].current_roles, runs[r].target_roles_set)

====
